---- MODULE Spec2Model ----
(***************************************************************************)
(* mineping: the Java (TCP/varint) and Bedrock (UDP/RakNet) status ping.   *)
(* Buffers are sequences of bytes (0..255); a JavaScript offset o is the   *)
(* sequence index o + 1.  Strings are sequences of code points.  Each      *)
(* request is the closure state of one pingJava / pingBedrock call.       *)
(***************************************************************************)
EXTENDS Integers, Sequences, FiniteSets, TLC

VARIABLES j, b, wire, last, lib, reqs

vars == <<j, b, wire, last, lib, reqs>>

(***************************************************************************)
(* Bounds of the model                                                     *)
(***************************************************************************)
\* most bytes the incoming buffer of a pingJava request holds
MaxBuf == 4
\* most bytes one free data event carries
MaxChunk == 2
\* most connect events delivered to one socket
MaxConnects == 1
\* most whitespace padding bytes in the JSON body of a served status packet
MaxPad == 127
\* how far around each power of 128 the values given to encodeVarInt range
MaxDelta == 2
\* most bytes of a buffer given to decodeVarInt
MaxVarIntBuf == 6
\* most chunks given to concatPackets
MaxParts == 3

(***************************************************************************)
(* Errors: every thrown or emitted error is a record of this shape         *)
(***************************************************************************)
ERR_VARINT_BUFFER_UNDERFLOW == "VARINT_BUFFER_UNDERFLOW"
ERR_VARINT_MALFORMED == "VARINT_MALFORMED"
ERR_VARINT_ENCODE_TOO_LARGE == "VARINT_ENCODE_TOO_LARGE"

Error(msg) == [msg |-> msg, code |-> "", arg |-> 0]
VarIntError(msg, code) == [msg |-> msg, code |-> code, arg |-> 0]
PacketIdError(id) == [msg |-> "Unexpected packet ID", code |-> "", arg |-> id]
NoError == Error("")
SocketTimeout == Error("Socket timeout")
PrematureClose == Error("Socket closed unexpectedly without a response.")
HostRequired == Error("Host argument is required.")

\* the result of a call that may throw
Returned(v) == [threw |-> FALSE, err |-> NoError, value |-> v]
Thrown(e) == [threw |-> TRUE, err |-> e, value |-> <<>>]

(***************************************************************************)
(* The JavaScript bitwise operators on 32-bit integers.  A bit pattern is  *)
(* kept as its signed (int32) value, as the operators return it.           *)
(***************************************************************************)
\* a shift that loses the bit which becomes the sign: the result is never
\* negative
ShiftLeftNoSign(x, k) == (x % (2 ^ (31 - k))) * (2 ^ k)

\* x << k for 0 <= x and 0 < k < 32: the bits of x below 32 - k survive and
\* bit 31 - k of x becomes the sign
ShiftLeft(x, k) ==
  LET keep == x % (2 ^ (32 - k))
      top == 2 ^ (31 - k)
  IN  IF keep >= top THEN (keep - 2 * top) * (2 ^ k) ELSE keep * (2 ^ k)

\* a | c for two patterns that share no set bit (a non-negative and below
\* 2^k, c a multiple of 2^k): the signed value of the union is the sum
BitOrDisjoint(a, c) == a + c

\* val & 0xff: a mask that lets the eighth bit into the byte
LowEightBits(val) == val % 256

\* val & 0x7f: the low seven bits of the two's-complement pattern
LowSevenBits(val) == val % 128

\* val >>> 7: the unsigned pattern (val + 2^32 when val < 0) shifted right
UnsignedShiftRight7(val) ==
  IF val >= 0 THEN val \div 128 ELSE (val \div 128) + 33554432

\* A JavaScript integer number n is kept as q and r with n = q * 2^32 + r
\* and r a signed 32-bit value, so that numbers beyond 32 bits can be
\* written.  The bitwise operators work on ToInt32(n), which is r.
Wide(q, r) == [q |-> q, r |-> r]
ToInt32(n) == n.r

(***************************************************************************)
(* Buffer helpers (node:buffer)                                            *)
(***************************************************************************)
readUInt8(buffer, offset) == buffer[offset + 1]

readUInt16BE(buffer, offset) == buffer[offset + 1] * 256 + buffer[offset + 2]

\* Buffer.subarray(start, end): negative indexes count from the end, both
\* are clamped to the buffer, an empty range gives an empty buffer
ClampIndex(i, len) ==
  IF i < 0 THEN (IF len + i < 0 THEN 0 ELSE len + i)
  ELSE (IF i > len THEN len ELSE i)

subarray(buffer, start, end) ==
  LET s == ClampIndex(start, Len(buffer))
      e == ClampIndex(end, Len(buffer))
  IN  IF e <= s THEN <<>> ELSE SubSeq(buffer, s + 1, e)

RECURSIVE BufferConcat(_)
BufferConcat(chunks) ==
  IF chunks = <<>> THEN <<>> ELSE Head(chunks) \o BufferConcat(Tail(chunks))

\* toString("utf8") on the bytes the model uses: an ASCII byte is its own
\* code point; 0x80..0xBF and 0xF8..0xFF can start no UTF-8 sequence and
\* decode to U+FFFD each.  (Lead bytes 0xC2..0xF4 are outside the model.)
Utf8Decode(bytes) ==
  [i \in 1..Len(bytes) |-> IF bytes[i] < 128 THEN bytes[i] ELSE 65533]

(***************************************************************************)
(* varint.js                                                               *)
(***************************************************************************)
RECURSIVE encodeVarIntLoop(_, _)
encodeVarIntLoop(val, buf) ==
  LET byte == LowSevenBits(val)
      next == UnsignedShiftRight7(val)
  IN  IF next = 0
      THEN Returned(Append(buf, byte))
      ELSE IF Len(buf) + 1 >= 5 /\ next > 0
           THEN Thrown(VarIntError("Value too large for a 5-byte VarInt",
                                   ERR_VARINT_ENCODE_TOO_LARGE))
           ELSE encodeVarIntLoop(next, Append(buf, byte + 128))

encodeVarInt(value) == encodeVarIntLoop(value, <<>>)

\* Buffer.from(value, "utf-8") for code points below 0x800
RECURSIVE encodeString(_)
encodeString(value) ==
  IF value = <<>> THEN <<>>
  ELSE LET c == Head(value)
       IN  (IF c < 128 THEN <<c>>
            ELSE <<192 + (c \div 64), 128 + (c % 64)>>)
           \o encodeString(Tail(value))

\* writeUInt16BE throws a RangeError outside 0..65535
encodeUShort(value) ==
  IF value < 0 \/ value > 65535
  THEN Thrown(Error("ERR_OUT_OF_RANGE"))
  ELSE Returned(<<value \div 256, value % 256>>)

\* a framing whose prefix counts the chunks, not their bytes
concatPacketsCountChunks(chunks) ==
  LET payload == BufferConcat(chunks)
      lengthPrefix == encodeVarInt(Len(chunks))
  IN  IF lengthPrefix.threw THEN lengthPrefix
      ELSE Returned(lengthPrefix.value \o payload)

concatPackets(chunks) ==
  LET payload == BufferConcat(chunks)
      lengthPrefix == encodeVarInt(Len(payload))
  IN  IF lengthPrefix.threw THEN lengthPrefix
      ELSE Returned(lengthPrefix.value \o payload)

DecodeUnderflowAtEnd ==
  VarIntError("Buffer underflow: Cannot decode VarInt at or beyond buffer length.",
              ERR_VARINT_BUFFER_UNDERFLOW)
\* the end of the buffer inside a varint reported as a malformed varint
DecodeIncompleteAsMalformed ==
  VarIntError("Buffer underflow: Incomplete VarInt, expected more bytes.",
              ERR_VARINT_MALFORMED)
DecodeUnderflowIncomplete ==
  VarIntError("Buffer underflow: Incomplete VarInt, expected more bytes.",
              ERR_VARINT_BUFFER_UNDERFLOW)
DecodeMalformed ==
  VarIntError("VarInt is too big or malformed: 5 bytes read with continuation bit still set.",
              ERR_VARINT_MALFORMED)

Decoded(val, n) == Returned([value |-> val, bytesRead |-> n])

\* a loop that gives up one byte early: four bytes with the continuation
\* bit are malformed
RECURSIVE decodeVarIntLoopFour(_, _, _, _, _, _)
decodeVarIntLoopFour(buffer, i, val, position, bytesRead, currentOffset) ==
  IF i >= 3 THEN Thrown(DecodeMalformed)
  ELSE IF currentOffset >= Len(buffer) THEN Thrown(DecodeUnderflowIncomplete)
  ELSE LET byte == readUInt8(buffer, currentOffset)
           v == BitOrDisjoint(val, ShiftLeft(byte % 128, position))
       IN  IF byte < 128
           THEN Decoded(v, bytesRead + 1)
           ELSE decodeVarIntLoopFour(buffer, i + 1, v, position + 7,
                                     bytesRead + 1, currentOffset + 1)

RECURSIVE decodeVarIntLoop(_, _, _, _, _, _)
decodeVarIntLoop(buffer, i, val, position, bytesRead, currentOffset) ==
  IF i >= 4 THEN Thrown(DecodeMalformed)
  ELSE IF currentOffset >= Len(buffer) THEN Thrown(DecodeUnderflowIncomplete)
  ELSE LET byte == readUInt8(buffer, currentOffset)
           v == BitOrDisjoint(val, ShiftLeft(byte % 128, position))
       IN  IF byte < 128
           THEN Decoded(v, bytesRead + 1)
           ELSE decodeVarIntLoop(buffer, i + 1, v, position + 7,
                                 bytesRead + 1, currentOffset + 1)

\* decodeVarInt with the fast path (the return for a first byte below 0x80)
\* taken out: the loop that follows runs for every first byte
decodeVarIntNoFastPath(buffer, offset) ==
  IF offset >= Len(buffer) THEN Thrown(DecodeUnderflowAtEnd)
  ELSE LET firstByte == readUInt8(buffer, offset)
       IN  decodeVarIntLoop(buffer, 0, firstByte % 128, 7, 1, offset + 1)

\* a decoder whose loop reads on from the second byte of the buffer, not
\* from the byte after the first one it read
decodeVarIntAbsolute(buffer, offset) ==
  IF offset >= Len(buffer) THEN Thrown(DecodeUnderflowAtEnd)
  ELSE LET firstByte == readUInt8(buffer, offset)
       IN  IF firstByte < 128
           THEN Decoded(firstByte, 1)
           ELSE decodeVarIntLoop(buffer, 0, firstByte % 128, 7, 1, 1)

decodeVarInt(buffer, offset) ==
  IF offset >= Len(buffer) THEN Thrown(DecodeUnderflowAtEnd)
  ELSE LET firstByte == readUInt8(buffer, offset)
       IN  IF firstByte < 128
           THEN Decoded(firstByte, 1)
           ELSE decodeVarIntLoop(buffer, 0, firstByte % 128, 7, 1, offset + 1)

(***************************************************************************)
(* JSON.parse on the texts the model uses: optional whitespace around one  *)
(* integer literal.  Every other text over the model's code points (a      *)
(* control character, U+FFFD, a leading zero, nothing at all) is a         *)
(* SyntaxError.  The parsed value of digits d1..dn is the number.          *)
(***************************************************************************)
IsWhitespace(c) == c \in {9, 10, 13, 32}
IsDigit(c) == c \in 48..57

RECURSIVE TrimStart(_)
TrimStart(s) ==
  IF s # <<>> /\ IsWhitespace(Head(s)) THEN TrimStart(Tail(s)) ELSE s

RECURSIVE TrimEnd(_)
TrimEnd(s) ==
  IF s # <<>> /\ IsWhitespace(s[Len(s)])
  THEN TrimEnd(SubSeq(s, 1, Len(s) - 1)) ELSE s

Trim(s) == TrimEnd(TrimStart(s))

\* a string is a sequence of code points; null (a value that is not a
\* string, and is falsy) is the sequence <<-1>>
Null == <<-1>>
IsString(x) == \A i \in 1..Len(x) : x[i] >= 0

RECURSIVE DigitsValue(_)
DigitsValue(s) ==
  IF s = <<>> THEN 0
  ELSE 10 * DigitsValue(SubSeq(s, 1, Len(s) - 1)) + (s[Len(s)] - 48)

JSONparse(text) ==
  LET t == Trim(text)
  IN  IF /\ t # <<>>
         /\ \A i \in 1..Len(t) : IsDigit(t[i])
         /\ (Len(t) = 1 \/ t[1] # 48)
      THEN Returned([json |-> DigitsValue(t)])
      ELSE Thrown(Error("SyntaxError"))

(***************************************************************************)
(* java.js: packets                                                        *)
(***************************************************************************)
createHandshakePacket(host, port, protocolVersion) ==
  LET hostBuffer == encodeString(host)
      packetId == encodeVarInt(0)
      version == encodeVarInt(protocolVersion)
      hostLength == encodeVarInt(Len(hostBuffer))
      portBytes == encodeUShort(port)
      nextState == encodeVarInt(1)
  IN  IF packetId.threw THEN packetId
      ELSE IF version.threw THEN version
      ELSE IF hostLength.threw THEN hostLength
      ELSE IF portBytes.threw THEN portBytes
      ELSE IF nextState.threw THEN nextState
      ELSE concatPackets(<<packetId.value, version.value, hostLength.value,
                           hostBuffer, portBytes.value, nextState.value>>)

createStatusRequestPacket ==
  LET packetId == encodeVarInt(0)
  IN  IF packetId.threw THEN packetId ELSE concatPackets(<<packetId.value>>)

(***************************************************************************)
(* java.js: processResponse.  A result is "null" (incomplete, wait),       *)
(* "result" (response and remainder) or "throw".                           *)
(***************************************************************************)
Incomplete == [kind |-> "null", response |-> [json |-> 0], remainder |-> <<>>,
               err |-> NoError]
Parsed(response, remainder) ==
  [kind |-> "result", response |-> response, remainder |-> remainder,
   err |-> NoError]
Rethrown(e) == [kind |-> "throw", response |-> [json |-> 0], remainder |-> <<>>,
                err |-> e]

\* mutant of processResponseCatch: every VarIntError is taken for "incomplete"
processResponseCatchSwallow(err) ==
  IF err.code # "" THEN Incomplete ELSE Rethrown(err)

\* mutant of processResponseCatch: an underflow is rethrown like any error
processResponseCatchRethrow(err) == Rethrown(err)

\* the catch block: an underflow is recoverable, everything else is rethrown
processResponseCatch(err) ==
  IF err.code = ERR_VARINT_BUFFER_UNDERFLOW THEN Incomplete ELSE Rethrown(err)

\* mutant of processResponse: the packet ID is not compared with 0x00
processResponseAnyId(buffer) ==
  LET packetLengthResult == decodeVarInt(buffer, 0)
  IN  IF packetLengthResult.threw
      THEN processResponseCatch(packetLengthResult.err)
      ELSE
  LET packetLength == packetLengthResult.value.value
      offset1 == packetLengthResult.value.bytesRead
  IN  IF Len(buffer) < offset1 + packetLength THEN Incomplete ELSE
  LET packetIdResult == decodeVarInt(buffer, offset1)
  IN  IF packetIdResult.threw
      THEN processResponseCatch(packetIdResult.err)
      ELSE
  LET offset2 == offset1 + packetIdResult.value.bytesRead
      jsonLengthResult == decodeVarInt(buffer, offset2)
  IN  IF jsonLengthResult.threw
      THEN processResponseCatch(jsonLengthResult.err)
      ELSE
  LET jsonLength == jsonLengthResult.value.value
      offset == offset2 + jsonLengthResult.value.bytesRead
  IN  IF Len(buffer) < offset + jsonLength THEN Incomplete ELSE
  LET jsonString == Utf8Decode(subarray(buffer, offset, offset + jsonLength))
      response == JSONparse(jsonString)
  IN  IF response.threw
      THEN processResponseCatch(response.err)
      ELSE Parsed(response.value,
                  subarray(buffer, offset + jsonLength, Len(buffer)))

processResponse(buffer) ==
  LET packetLengthResult == decodeVarInt(buffer, 0)
  IN  IF packetLengthResult.threw
      THEN processResponseCatch(packetLengthResult.err)
      ELSE
  LET packetLength == packetLengthResult.value.value
      offset1 == packetLengthResult.value.bytesRead
  IN  IF Len(buffer) < offset1 + packetLength THEN Incomplete ELSE
  LET packetIdResult == decodeVarInt(buffer, offset1)
  IN  IF packetIdResult.threw
      THEN processResponseCatch(packetIdResult.err)
      ELSE IF packetIdResult.value.value # 0
      THEN processResponseCatch(PacketIdError(packetIdResult.value.value))
      ELSE
  LET offset2 == offset1 + packetIdResult.value.bytesRead
      jsonLengthResult == decodeVarInt(buffer, offset2)
  IN  IF jsonLengthResult.threw
      THEN processResponseCatch(jsonLengthResult.err)
      ELSE
  LET jsonLength == jsonLengthResult.value.value
      offset == offset2 + jsonLengthResult.value.bytesRead
  IN  IF Len(buffer) < offset + jsonLength THEN Incomplete ELSE
  LET jsonString == Utf8Decode(subarray(buffer, offset, offset + jsonLength))
      response == JSONparse(jsonString)
  IN  IF response.threw
      THEN processResponseCatch(response.err)
      ELSE Parsed(response.value,
                  subarray(buffer, offset + jsonLength, Len(buffer)))

(***************************************************************************)
(* The promise handed to the caller: resolve and reject settle it only     *)
(* while it is pending (new Promise((resolve, reject) => ...)).            *)
(***************************************************************************)
Undefined == [undefined |-> TRUE]

PendingPromise == [state |-> "pending", value |-> Undefined, reason |-> NoError]

resolve(s, v) ==
  IF s.promise.state = "pending"
  THEN [s EXCEPT !.promise = [state |-> "resolved", value |-> v, reason |-> NoError]]
  ELSE s

\* mutant of reject: a later rejection overwrites a settled promise
rejectAlways(s, e) ==
  [s EXCEPT !.promise = [state |-> "rejected", value |-> Undefined, reason |-> e]]

reject(s, e) ==
  IF s.promise.state = "pending"
  THEN [s EXCEPT !.promise = [state |-> "rejected", value |-> Undefined, reason |-> e]]
  ELSE s

(***************************************************************************)
(* java.js: pingJava.  phase is "idle" before the call, "lookup" while the *)
(* SRV lookup is awaited, "open" once the socket exists and "failed" when  *)
(* the call was rejected before a socket was created.                      *)
(***************************************************************************)
DEFAULT_JAVA_PORT == 25565
DEFAULT_PROTOCOL_VERSION == -1

\* an option the caller left out is <<>>, an option given as v is <<v>>
NoOptions == [port |-> <<>>, protocolVersion |-> <<>>]

\* the closure of one call; lookups and sockets list the dns.resolveSrv and
\* net.createConnection calls made so far
JavaIdle ==
  [phase |-> "idle", host |-> <<>>, options |-> NoOptions,
   targetHost |-> <<>>, targetPort |-> 0,
   protocolVersion |-> 0, isCleanupCompleted |-> FALSE, timerArmed |-> FALSE,
   clearTimeoutCalls |-> 0, destroyCalls |-> 0, noDelay |-> FALSE,
   promise |-> PendingPromise, incomingBuffer |-> <<>>, writes |-> <<>>,
   lookups |-> <<>>, sockets |-> <<>>]

\* "_minecraft._tcp."
SRV_PREFIX == <<95, 109, 105, 110, 101, 99, 114, 97, 102, 116, 46, 95, 116, 99, 112, 46>>

\* mutant of pingJavaCall: no host check
pingJavaCallNoCheck(host, options) ==
  LET fallbackPort ==
        IF options.port = <<>> THEN DEFAULT_JAVA_PORT ELSE options.port[1]
      protocolVersion ==
        IF options.protocolVersion = <<>> THEN DEFAULT_PROTOCOL_VERSION
        ELSE options.protocolVersion[1]
  IN  [JavaIdle EXCEPT !.phase = "lookup", !.host = host,
                       !.options = options,
                       !.targetHost = host, !.targetPort = fallbackPort,
                       !.protocolVersion = protocolVersion,
                       !.lookups = <<SRV_PREFIX \o host>>]

\* lines 128-145: the host check, the option defaults, and the call of
\* dns.resolveSrv whose outcome is awaited
pingJavaCall(host, options) ==
  IF ~IsString(host) \/ Trim(host) = <<>>
  THEN reject([JavaIdle EXCEPT !.phase = "failed", !.host = host,
                               !.options = options], HostRequired)
  ELSE LET fallbackPort ==
             IF options.port = <<>> THEN DEFAULT_JAVA_PORT ELSE options.port[1]
           protocolVersion ==
             IF options.protocolVersion = <<>> THEN DEFAULT_PROTOCOL_VERSION
             ELSE options.protocolVersion[1]
       IN  [JavaIdle EXCEPT !.phase = "lookup", !.host = host,
                            !.options = options,
                            !.targetHost = host, !.targetPort = fallbackPort,
                            !.protocolVersion = protocolVersion,
                            !.lookups = <<SRV_PREFIX \o host>>]

\* lines 161-187 and 224: the promise executor up to the handler registration
createConnection(s) ==
  [s EXCEPT !.phase = "open", !.isCleanupCompleted = FALSE,
            !.timerArmed = TRUE, !.noDelay = TRUE, !.incomingBuffer = <<>>,
            !.sockets = Append(@, [host |-> s.targetHost, port |-> s.targetPort])]

\* mutant of srvLookupDone: the last SRV record is used, not the first
srvLookupDoneLast(s, answer) ==
  IF answer.code = ""
  THEN IF Len(answer.records) > 0
       THEN createConnection(
              [s EXCEPT !.targetHost = answer.records[Len(answer.records)].name,
                        !.targetPort = answer.records[Len(answer.records)].port])
       ELSE createConnection(s)
  ELSE IF answer.code \notin {"ENODATA", "ENOTFOUND"}
       THEN reject([s EXCEPT !.phase = "failed"], Error(answer.code))
       ELSE createConnection(s)

\* mutant of srvLookupDone: every DNS error falls back to the caller's target
srvLookupDoneLenient(s, answer) ==
  IF answer.code = ""
  THEN IF Len(answer.records) > 0
       THEN createConnection([s EXCEPT !.targetHost = answer.records[1].name,
                                       !.targetPort = answer.records[1].port])
       ELSE createConnection(s)
  ELSE createConnection(s)

\* lines 143-159: the outcome of dns.resolveSrv, then the executor
srvLookupDone(s, answer) ==
  IF answer.code = ""
  THEN IF Len(answer.records) > 0
       THEN createConnection([s EXCEPT !.targetHost = answer.records[1].name,
                                       !.targetPort = answer.records[1].port])
       ELSE createConnection(s)
  ELSE IF answer.code \notin {"ENODATA", "ENOTFOUND"}
       THEN reject([s EXCEPT !.phase = "failed"], Error(answer.code))
       ELSE createConnection(s)

\* mutant of cleanup: no isCleanupCompleted guard
cleanupUnguarded(s) ==
  [s EXCEPT !.isCleanupCompleted = TRUE,
            !.timerArmed = FALSE,
            !.clearTimeoutCalls = @ + 1,
            !.destroyCalls = @ + 1]

cleanup(s) ==
  IF s.isCleanupCompleted THEN s
  ELSE [s EXCEPT !.isCleanupCompleted = TRUE,
                 !.timerArmed = FALSE,
                 !.clearTimeoutCalls = @ + 1,
                 !.destroyCalls = @ + 1]

errorHandler(s, err) == reject(cleanup(s), err)

\* mutant of closeHandler: no close handler is registered
closeHandlerIgnore(s) == s

closeHandler(s) ==
  IF ~s.isCleanupCompleted
  THEN reject(cleanup(s), PrematureClose)
  ELSE s

\* mutant of timeoutTask: the timer fires without emitting the error
timeoutTaskSilent(s) == [s EXCEPT !.timerArmed = FALSE]

\* the timer callback: the timer has fired, then socket.emit("error", ...)
timeoutTask(s) ==
  errorHandler([s EXCEPT !.timerArmed = FALSE], SocketTimeout)

\* mutant of connectHandler: the handshake names the SRV-resolved host
connectHandlerTargetHost(s) ==
  LET handshakePacket ==
        createHandshakePacket(s.targetHost, s.targetPort, s.protocolVersion)
      statusRequestPacket == createStatusRequestPacket
  IN  IF handshakePacket.threw THEN errorHandler(s, handshakePacket.err)
      ELSE IF statusRequestPacket.threw THEN errorHandler(s, statusRequestPacket.err)
      ELSE [s EXCEPT !.writes = @ \o <<handshakePacket.value, statusRequestPacket.value>>]

\* mutant of connectHandler: the status request is written first
connectHandlerSwapped(s) ==
  LET handshakePacket == createHandshakePacket(s.host, s.targetPort, s.protocolVersion)
      statusRequestPacket == createStatusRequestPacket
  IN  IF handshakePacket.threw THEN errorHandler(s, handshakePacket.err)
      ELSE IF statusRequestPacket.threw THEN errorHandler(s, statusRequestPacket.err)
      ELSE [s EXCEPT !.writes = @ \o <<statusRequestPacket.value, handshakePacket.value>>]

connectHandler(s) ==
  LET handshakePacket == createHandshakePacket(s.host, s.targetPort, s.protocolVersion)
      statusRequestPacket == createStatusRequestPacket
  IN  IF handshakePacket.threw THEN errorHandler(s, handshakePacket.err)
      ELSE IF statusRequestPacket.threw THEN errorHandler(s, statusRequestPacket.err)
      ELSE [s EXCEPT !.writes = @ \o <<handshakePacket.value, statusRequestPacket.value>>]

\* mutant of dataHandler: the chunk replaces the buffer instead of extending it
dataHandlerReplace(s, data) ==
  LET s1 == [s EXCEPT !.incomingBuffer = data]
      result == processResponse(s1.incomingBuffer)
  IN  IF result.kind = "throw" THEN errorHandler(s1, result.err)
      ELSE IF result.kind = "result" THEN resolve(cleanup(s1), result.response)
      ELSE s1

\* mutant of dataHandler: a parsed response resolves without cleanup
dataHandlerNoCleanup(s, data) ==
  LET s1 == [s EXCEPT !.incomingBuffer = @ \o data]
      result == processResponse(s1.incomingBuffer)
  IN  IF result.kind = "throw" THEN errorHandler(s1, result.err)
      ELSE IF result.kind = "result" THEN resolve(s1, result.response)
      ELSE s1

\* a handler that puts the new chunk in front of the buffered bytes
dataHandlerPrepend(s, data) ==
  LET s1 == [s EXCEPT !.incomingBuffer = data \o @]
      result == processResponse(s1.incomingBuffer)
  IN  IF result.kind = "throw" THEN errorHandler(s1, result.err)
      ELSE IF result.kind = "result" THEN resolve(cleanup(s1), result.response)
      ELSE s1

dataHandler(s, data) ==
  LET s1 == [s EXCEPT !.incomingBuffer = @ \o data]
      result == processResponse(s1.incomingBuffer)
  IN  IF result.kind = "throw" THEN errorHandler(s1, result.err)
      ELSE IF result.kind = "result" THEN resolve(cleanup(s1), result.response)
      ELSE s1

(***************************************************************************)
(* bedrock.js: JavaScript values of the MOTD record are tagged records     *)
(***************************************************************************)
Str(s) == [str |-> s]
Num(n) == [num |-> n]
NaN == [nan |-> TRUE]
NegZero == [negzero |-> TRUE]
Bool(x) == [bool |-> x]
\* a bigint is kept exactly: its sign and the decimal digits of its
\* magnitude without leading zeros (0n is the digit 0 and not negative)
Big(neg, digits) == [big |-> [neg |-> neg, digits |-> digits]]

UNCONNECTED_PONG == 28
MAGIC == <<0, 255, 255, 0, 254, 254, 254, 254, 253, 253, 253, 253, 18, 52, 86, 120>>
DEFAULT_BEDROCK_PORT == 19132

\* String.prototype.split on one separator code point
RECURSIVE Split(_, _)
Split(s, sep) ==
  IF \A i \in 1..Len(s) : s[i] # sep THEN <<s>>
  ELSE LET k == CHOOSE i \in 1..Len(s) :
                  s[i] = sep /\ \A m \in 1..(i - 1) : s[m] # sep
       IN  <<SubSeq(s, 1, k - 1)>> \o Split(SubSeq(s, k + 1, Len(s)), sep)

\* array destructuring: a missing element is undefined
Part(parts, i) == IF i <= Len(parts) THEN Str(parts[i]) ELSE Undefined

IsDigits(s) == s # <<>> /\ \A i \in 1..Len(s) : IsDigit(s[i])

\* Number(x) on undefined and on strings of digits, '-' and other characters
Number(x) ==
  IF x = Undefined THEN NaN
  ELSE LET t == Trim(x.str)
       IN  IF t = <<>> THEN Num(0)
           ELSE IF IsDigits(t) THEN Num(DigitsValue(t))
           ELSE IF Head(t) = 45 /\ IsDigits(Tail(t))
                THEN (IF DigitsValue(Tail(t)) = 0 THEN NegZero
                      ELSE Num(0 - DigitsValue(Tail(t))))
           ELSE NaN

RECURSIVE StripZeros(_)
StripZeros(digits) ==
  IF Len(digits) > 1 /\ Head(digits) = 48 THEN StripZeros(Tail(digits))
  ELSE digits

\* a conversion through a double: only the 15 leading digits of the
\* magnitude are kept, the others become 0
BigIntViaNumber(x) ==
  IF x = Undefined THEN Thrown(Error("TypeError: Cannot convert undefined to a BigInt"))
  ELSE LET t == Trim(x.str)
           neg == t # <<>> /\ Head(t) = 45
           m == StripZeros(IF neg THEN Tail(t) ELSE t)
       IN  IF t = <<>> THEN Returned(Big(FALSE, <<48>>))
           ELSE IF ~IsDigits(m) THEN Thrown(Error("SyntaxError: Cannot convert to a BigInt"))
           ELSE Returned(Big(neg /\ m # <<48>>,
                             [i \in 1..Len(m) |-> IF i <= 15 THEN m[i] ELSE 48]))

\* BigInt(x): undefined is a TypeError; a string is trimmed, "" is 0n, an
\* optionally signed decimal literal is its value whatever its size, any
\* other string of the model's characters is a SyntaxError.  (0x, 0o and
\* 0b literals are outside the model.)
BigInt(x) ==
  IF x = Undefined THEN Thrown(Error("TypeError: Cannot convert undefined to a BigInt"))
  ELSE LET t == Trim(x.str)
       IN  IF t = <<>> THEN Returned(Big(FALSE, <<48>>))
           ELSE IF IsDigits(t) THEN Returned(Big(FALSE, StripZeros(t)))
           ELSE IF Head(t) = 45 /\ IsDigits(Tail(t))
                THEN Returned(Big(StripZeros(Tail(t)) # <<48>>, StripZeros(Tail(t))))
           ELSE IF Head(t) = 43 /\ IsDigits(Tail(t))
                THEN Returned(Big(FALSE, StripZeros(Tail(t))))
           ELSE Thrown(Error("SyntaxError: Cannot convert to a BigInt"))

\* a test that takes the empty string for a value
TruthyDefined(x) == x # Undefined

\* truthiness of a destructured string: undefined and "" are falsy
Truthy(x) == x # Undefined /\ x.str # <<>>

\* Boolean(n): NaN, 0 and -0 are false
Boolean(n) == Bool(n # NaN /\ n # NegZero /\ n # Num(0))

MotdFormatError(n) ==
  [msg |-> "Invalid MOTD format: Expected at least 5 fields", code |-> "", arg |-> n]

\* a parser without the check of the number of fields
parseMotdNoCount(motdString) ==
  LET parts == Split(motdString, 59)
      nintendoLimitedStr == Part(parts, 10)
      port == Part(parts, 11)
      ipv6Port == Part(parts, 12)
      editorModeStr == Part(parts, 13)
      serverGuid == BigInt(Part(parts, 7))
  IN  IF serverGuid.threw THEN serverGuid
      ELSE Returned(
        [edition |-> Part(parts, 1),
         name |-> Part(parts, 2),
         protocol |-> Number(Part(parts, 3)),
         version |-> Part(parts, 4),
         playerCount |-> Number(Part(parts, 5)),
         playerMax |-> Number(Part(parts, 6)),
         serverGuid |-> serverGuid.value,
         subName |-> Part(parts, 8),
         gamemode |-> Part(parts, 9),
         nintendoLimited |-> IF nintendoLimitedStr = Str(<<48>>) THEN Bool(TRUE)
                             ELSE IF nintendoLimitedStr = Str(<<49>>) THEN Bool(FALSE)
                             ELSE Undefined,
         port |-> IF Truthy(port) THEN Number(port) ELSE Undefined,
         ipv6Port |-> IF Truthy(ipv6Port) THEN Number(ipv6Port) ELSE Undefined,
         editorMode |-> IF Truthy(editorModeStr) THEN Boolean(Number(editorModeStr))
                        ELSE Undefined])

parseMotd(motdString) ==
  LET parts == Split(motdString, 59)
      nintendoLimitedStr == Part(parts, 10)
      port == Part(parts, 11)
      ipv6Port == Part(parts, 12)
      editorModeStr == Part(parts, 13)
      serverGuid == BigInt(Part(parts, 7))
  IN  IF Len(parts) < 5 THEN Thrown(MotdFormatError(Len(parts)))
      ELSE IF serverGuid.threw THEN serverGuid
      ELSE Returned(
        [edition |-> Part(parts, 1),
         name |-> Part(parts, 2),
         protocol |-> Number(Part(parts, 3)),
         version |-> Part(parts, 4),
         playerCount |-> Number(Part(parts, 5)),
         playerMax |-> Number(Part(parts, 6)),
         serverGuid |-> serverGuid.value,
         subName |-> Part(parts, 8),
         gamemode |-> Part(parts, 9),
         nintendoLimited |-> IF nintendoLimitedStr = Str(<<48>>) THEN Bool(TRUE)
                             ELSE IF nintendoLimitedStr = Str(<<49>>) THEN Bool(FALSE)
                             ELSE Undefined,
         port |-> IF Truthy(port) THEN Number(port) ELSE Undefined,
         ipv6Port |-> IF Truthy(ipv6Port) THEN Number(ipv6Port) ELSE Undefined,
         editorMode |-> IF Truthy(editorModeStr) THEN Boolean(Number(editorModeStr))
                        ELSE Undefined])

transformMotd(motd) ==
  [edition |-> motd.edition,
   name |-> motd.name,
   levelName |-> motd.subName,
   gamemode |-> motd.gamemode,
   version |-> [protocol |-> motd.protocol, minecraft |-> motd.version],
   players |-> [online |-> motd.playerCount, max |-> motd.playerMax],
   port |-> [v4 |-> motd.port, v6 |-> motd.ipv6Port],
   guid |-> motd.serverGuid,
   isNintendoLimited |-> motd.nintendoLimited,
   isEditorModeEnabled |-> motd.editorMode]

\* Buffer.readUInt8 / readUInt16BE as node:buffer checks them: a read that
\* does not lie inside the buffer throws ERR_OUT_OF_RANGE
OutOfRange == Error("ERR_OUT_OF_RANGE")

checkedReadUInt8(buffer, offset) ==
  IF offset < 0 \/ offset + 1 > Len(buffer) THEN Thrown(OutOfRange)
  ELSE Returned(readUInt8(buffer, offset))

checkedReadUInt16BE(buffer, offset) ==
  IF offset < 0 \/ offset + 2 > Len(buffer) THEN Thrown(OutOfRange)
  ELSE Returned(readUInt16BE(buffer, offset))

\* Buffer.toString("utf-8", start, end): the range is clamped to the buffer
toStringUtf8(buffer, start, end) ==
  LET e == IF end > Len(buffer) THEN Len(buffer) ELSE end
  IN  IF start >= e THEN <<>> ELSE Utf8Decode(SubSeq(buffer, start + 1, e))

PongTooSmall == Error("Invalid pong packet: buffer is too small.")
PongBadId(id) == [msg |-> "Unexpected packet ID", code |-> "", arg |-> id]
PongBadLength == Error("Malformed pong packet: MOTD length exceeds buffer size.")

\* mutant of pongMotdString: the declared MOTD length is not checked
\* against the buffer
pongMotdStringUnchecked(pongPacket) ==
  IF Len(pongPacket) < 35 THEN Thrown(PongTooSmall)
  ELSE
  LET packetId == checkedReadUInt8(pongPacket, 0)
  IN  IF packetId.threw THEN packetId
      ELSE IF packetId.value # UNCONNECTED_PONG THEN Thrown(PongBadId(packetId.value))
      ELSE
  LET motdLength == checkedReadUInt16BE(pongPacket, 33)
      motdOffset == 35
  IN  IF motdLength.threw THEN motdLength
      ELSE Returned(toStringUtf8(pongPacket, motdOffset, motdOffset + motdLength.value))

\* the bounds checks of parseUnconnectedPong and the MOTD string it extracts
pongMotdString(pongPacket) ==
  IF Len(pongPacket) < 35 THEN Thrown(PongTooSmall)
  ELSE
  LET packetId == checkedReadUInt8(pongPacket, 0)
  IN  IF packetId.threw THEN packetId
      ELSE IF packetId.value # UNCONNECTED_PONG THEN Thrown(PongBadId(packetId.value))
      ELSE
  LET motdLength == checkedReadUInt16BE(pongPacket, 33)
      motdOffset == 35
  IN  IF motdLength.threw THEN motdLength
      ELSE IF motdOffset + motdLength.value > Len(pongPacket) THEN Thrown(PongBadLength)
      ELSE Returned(toStringUtf8(pongPacket, motdOffset, motdOffset + motdLength.value))

parseUnconnectedPong(pongPacket) ==
  LET motdString == pongMotdString(pongPacket)
  IN  IF motdString.threw THEN motdString
      ELSE LET rawMotd == parseMotd(motdString.value)
           IN  IF rawMotd.threw THEN rawMotd
               ELSE Returned(transformMotd(rawMotd.value))

\* writeBigInt64LE of a non-negative timestamp
RECURSIVE LittleEndian(_, _)
LittleEndian(n, bytes) ==
  IF bytes = 0 THEN <<>> ELSE <<n % 256>> \o LittleEndian(n \div 256, bytes - 1)

\* a frame whose timestamp is written most significant byte first
createUnconnectedPingFrameBigEndian(timestamp, clientGuid) ==
  <<1, 0, 0, 0, 0, 0, 0, timestamp \div 256, timestamp % 256>> \o MAGIC \o clientGuid

createUnconnectedPingFrame(timestamp, clientGuid) ==
  <<1>> \o LittleEndian(timestamp, 8) \o MAGIC \o clientGuid

(***************************************************************************)
(* bedrock.js: pingBedrock.  phase is "idle" before the call, "thrown"     *)
(* when the host check threw, "sending" once the socket, the timer and the *)
(* handlers exist, and "open" after the ping was handed to socket.send.    *)
(***************************************************************************)
BedrockIdle ==
  [phase |-> "idle", host |-> <<>>, port |-> 0, isCleanupCompleted |-> FALSE,
   timerArmed |-> FALSE, clearTimeoutCalls |-> 0, closeCalls |-> 0,
   promise |-> PendingPromise, sent |-> <<>>, socketCreated |-> FALSE]

\* !host: null, undefined and "" are falsy
Falsy(host) == host = Null \/ host = <<>>

\* mutant of pingBedrockCall: no timeout timer is armed
pingBedrockCallNoTimer(host, port) ==
  IF Falsy(host)
  THEN [BedrockIdle EXCEPT !.phase = "thrown", !.host = host]
  ELSE [BedrockIdle EXCEPT !.phase = "sending", !.host = host, !.port = port,
                           !.socketCreated = TRUE]

\* lines 203-249: host check, socket, timer, handlers
pingBedrockCall(host, port) ==
  IF Falsy(host)
  THEN [BedrockIdle EXCEPT !.phase = "thrown", !.host = host]
  ELSE [BedrockIdle EXCEPT !.phase = "sending", !.host = host, !.port = port,
                           !.socketCreated = TRUE, !.timerArmed = TRUE]

\* mutant of cleanupBedrock: no isCleanupCompleted guard
cleanupBedrockUnguarded(s) ==
  [s EXCEPT !.isCleanupCompleted = TRUE,
            !.timerArmed = FALSE,
            !.clearTimeoutCalls = @ + 1,
            !.closeCalls = @ + 1]

cleanupBedrock(s) ==
  IF s.isCleanupCompleted THEN s
  ELSE [s EXCEPT !.isCleanupCompleted = TRUE,
                 !.timerArmed = FALSE,
                 !.clearTimeoutCalls = @ + 1,
                 !.closeCalls = @ + 1]

errorHandlerBedrock(s, err) == reject(cleanupBedrock(s), err)

timeoutTaskBedrock(s) ==
  errorHandlerBedrock([s EXCEPT !.timerArmed = FALSE], SocketTimeout)

\* a handler that ignores a datagram it cannot parse and keeps waiting
messageHandlerLenient(s, pongPacket) ==
  LET motd == parseUnconnectedPong(pongPacket)
  IN  IF motd.threw THEN s
      ELSE resolve(cleanupBedrock(s), motd.value)

messageHandler(s, pongPacket) ==
  LET motd == parseUnconnectedPong(pongPacket)
  IN  IF motd.threw THEN errorHandlerBedrock(s, motd.err)
      ELSE resolve(cleanupBedrock(s), motd.value)

\* lines 251-259: the ping is built and sent; a synchronous throw of
\* socket.send is emitted as a socket error
sendPing(s, timestamp, clientGuid, sendThrows) ==
  LET pingPacket == createUnconnectedPingFrame(timestamp, clientGuid)
  IN  IF sendThrows
      THEN errorHandlerBedrock([s EXCEPT !.phase = "open"], Error("ERR_SOCKET_BAD_PORT"))
      ELSE [s EXCEPT !.phase = "open",
                     !.sent = Append(@, [packet |-> pingPacket, offset |-> 0,
                                         length |-> Len(pingPacket),
                                         port |-> s.port, host |-> s.host])]

(***************************************************************************)
(* Inputs of the environment                                               *)
(***************************************************************************)
\* 0x00, 0x01, '9' and the bare continuation byte 0x80
ByteAlphabet == {0, 1, 57, 128}
Chunks == UNION {[1..n -> ByteAlphabet] : n \in 1..MaxChunk}

SocketErrors == {Error("ECONNREFUSED"), Error("ECONNRESET")}

\* the IPv6 loopback address "::1"
IpHost == <<58, 58, 49>>

\* null, "", " ", "h" and "::1"
JavaHosts == {Null, <<>>, <<32>>, <<104>>, IpHost}
\* null, "" and "h"
BedrockHosts == {Null, <<>>, <<104>>}

\* {} and { port: 25577, protocolVersion: 47 }
JavaOptions == {NoOptions, [port |-> <<25577>>, protocolVersion |-> <<47>>]}

\* the calls made: pingJava(null), pingJava(""), pingJava(" "), pingJava("h")
\* and pingJava("::1", { port: 25577, protocolVersion: 47 })
JavaCalls ==
  {c \in [host : JavaHosts, options : JavaOptions] :
     IF c.host = IpHost THEN c.options # NoOptions ELSE c.options = NoOptions}

SrvAnswers ==
  {[code |-> "", records |-> <<>>],
   [code |-> "", records |-> <<[name |-> <<115>>, port |-> 25566]>>],
   [code |-> "", records |-> <<[name |-> <<115>>, port |-> 25566],
                               [name |-> <<116>>, port |-> 25567]>>],
   [code |-> "ENODATA", records |-> <<>>],
   [code |-> "ENOTFOUND", records |-> <<>>],
   [code |-> "ESERVFAIL", records |-> <<>>]}

Spaces(n) == [i \in 1..n |-> 32]

\* JSON bodies a server sends: "9" padded with spaces, and "10"
ServedJson == {<<57>> \o Spaces(n) : n \in {0, 1, 125, MaxPad}} \cup {<<49, 48>>}

\* the status packet of a server: [length][0x00][JSON length][JSON]
createMockJavaResponse(jsonBuffer) ==
  concatPackets(<<encodeVarInt(0).value, encodeVarInt(Len(jsonBuffer)).value,
                  jsonBuffer>>).value

Cont(n) == [i \in 1..n |-> 128]

\* JSON bodies JSON.parse rejects: "", a lone 0x80, "09", "9\0", "9 9"
UnparsableJson == {<<>>, <<128>>, <<48, 57>>, <<57, 0>>, <<57, 32, 57>>}

\* the five-byte varint FF FF FF FF 0F, whose bit 31 is set
MinusOne == <<255, 255, 255, 255, 15>>

\* byte streams whose overall length, or whose JSON length, is a five-byte
\* varint with bit 31 set
NegativeLengthStreams ==
  {MinusOne \o <<0, 1, 57>>, <<6, 0>> \o MinusOne}

\* byte streams of a server that does not follow the protocol: five
\* continuation bytes at the overall length, at the packet ID and at the JSON
\* length, in frames that are complete and in frames that declare more bytes
\* than are sent; five-byte varints that do terminate; bodies that are not
\* JSON, in complete frames and in a frame that declares more bytes
MisbehavingStreams ==
  {Cont(5), Cont(5) \o <<0>>,
   <<5>> \o Cont(5), <<1>> \o Cont(5), <<6>> \o Cont(5),
   <<6, 0>> \o Cont(5), <<2, 0>> \o Cont(5), <<7, 0>> \o Cont(5),
   Cont(4) \o <<0, 0, 0>>, <<5>> \o Cont(4) \o <<0>>, <<5>> \o Cont(4) \o <<1>>,
   <<6, 0>> \o Cont(4) \o <<0>>,
   <<4, 0, 1, 128>>}
  \cup {createMockJavaResponse(json) : json \in UnparsableJson}
  \cup NegativeLengthStreams

RECURSIVE Join(_)
Join(fields) ==
  IF fields = <<>> THEN <<>>
  ELSE IF Len(fields) = 1 THEN fields[1]
  ELSE fields[1] \o <<59>> \o Join(Tail(fields))

\* "a;a;1;a;1;10;-1;a;a;0;1;1;1"
MotdFields ==
  <<(<<97>>), (<<97>>), (<<49>>), (<<97>>), (<<49>>), (<<49, 48>>), (<<45, 49>>),
    (<<97>>), (<<97>>), (<<48>>), (<<49>>), (<<49>>), (<<49>>)>>

MotdStrings ==
  {Join(SubSeq(MotdFields, 1, n)) : n \in 0..13}
  \cup {Join([MotdFields EXCEPT ![7] = <<97>>]),
        Join([MotdFields EXCEPT ![10] = <<49>>, ![13] = <<48>>]),
        Join(SubSeq(MotdFields, 1, 9)) \o <<59>>}

\* "M;N;8;V;3;4;11546321190880321782;L;G;1;5;6;0": every field differs
\* from the others and the GUID is above 2^63 - 1
DistinctFields ==
  <<(<<77>>), (<<78>>), (<<56>>), (<<86>>), (<<51>>), (<<52>>),
    (<<49, 49, 53, 52, 54, 51, 50, 49, 49, 57, 48, 56, 56, 48, 51, 50, 49, 55, 56, 50>>),
    (<<76>>), (<<71>>), (<<49>>), (<<53>>), (<<54>>), (<<48>>)>>

\* "-138584171542148188", the GUID of the third-party server of the tests
NegativeGuid ==
  <<45, 49, 51, 56, 53, 56, 52, 49, 55, 49, 53, 52, 50, 49, 52, 56, 49, 56, 56>>

\* MOTD strings that arrive well framed only: large GUIDs of both signs,
\* a GUID with leading zeros, other and empty values in the optional fields
MotdVariants ==
  {Join(DistinctFields),
   Join([DistinctFields EXCEPT ![7] = NegativeGuid]),
   Join([DistinctFields EXCEPT ![7] = <<48, 48, 55>>]),
   Join([DistinctFields EXCEPT ![10] = <<50>>, ![13] = <<50>>]),
   Join([DistinctFields EXCEPT ![13] = <<>>]),
   Join(SubSeq(DistinctFields, 1, 11))}

Zeros(n) == [i \in 1..n |-> 0]

\* a pong frame: ID, 32 envelope bytes, the declared MOTD length, the MOTD
PongFrame(id, declared, motdBuffer) ==
  <<id>> \o Zeros(8) \o Zeros(8) \o MAGIC
  \o <<declared \div 256, declared % 256>> \o motdBuffer

createMockPongPacket(motd) ==
  PongFrame(UNCONNECTED_PONG, Len(encodeString(motd)), encodeString(motd))

Datagrams ==
  {createMockPongPacket(m) : m \in MotdStrings \cup MotdVariants}
  \cup {PongFrame(UNCONNECTED_PONG, Len(m) + 1, m) : m \in MotdStrings}
  \cup {PongFrame(UNCONNECTED_PONG, Len(m) - 1, m) : m \in MotdStrings \ {<<>>}}
  \cup {PongFrame(1, Len(m), m) : m \in MotdStrings}
  \cup {<<>>,
        <<UNCONNECTED_PONG>> \o Zeros(33),
        PongFrame(UNCONNECTED_PONG, 256, <<>>),
        PongFrame(UNCONNECTED_PONG, 0, <<255>>)}

ClientGuids == {Zeros(8), <<1, 2, 3, 4, 5, 6, 7, 8>>}
Timestamps == {258}

\* the smallest and the largest signed 32-bit integer
MinInt32 == (0 - 2147483647) - 1
MaxInt32 == 2147483647

\* values given to encodeVarInt: those of the round-trip test, the values
\* around each power of 128 and around the ends of the 32-bit range, of
\* both signs, and numbers that no 32 bits hold (2^32 + r, 2^35 + r, ...)
Int32Values ==
  {0, 1, 127, 128, 255, 16383, 16384, MaxInt32, -1}
  \cup {(2 ^ k) + d : k \in {7, 14, 21, 28}, d \in (0 - MaxDelta)..MaxDelta}
  \cup {(0 - (2 ^ k)) + d : k \in {7, 14, 21, 28}, d \in (0 - MaxDelta)..MaxDelta}
  \cup {MaxInt32 - d : d \in 0..MaxDelta}
  \cup {MinInt32 + d : d \in 0..MaxDelta}

EncodeInputs ==
  {Wide(0, r) : r \in Int32Values}
  \cup {Wide(q, r) : q \in {1, 8, 9, 2048}, r \in {0, 5, 128, MaxInt32, -1, MinInt32}}

\* buffers and offsets given to decodeVarInt: bytes with and without the
\* continuation bit, with all and with few value bits set
VarIntBytes == {1, 127, 128, 255}

VarIntBuffers ==
  UNION {[1..n -> VarIntBytes] : n \in 0..MaxVarIntBuf}

\* chunk lists given to concatPackets; Fill(126) takes the payload over
\* the 127 bytes a one-byte length prefix can announce
Fill(n) == [i \in 1..n |-> i]

Parts == {<<>>, <<7>>, <<128, 9>>, Fill(126)}

ChunkLists == UNION {[1..n -> Parts] : n \in 0..MaxParts}

\* requests that run at the same time, as the server dashboard example
\* starts them: two pingJava requests and one pingBedrock request, each
\* for its own host ("h", "i", "j")
JavaSlots == {1, 2}
BedrockSlots == {3}
HostOf(i) == <<103 + i>>

\* what the concurrent requests receive: an SRV answer with one record,
\* the status packet 03 00 01 '9' in two pieces, a full pong and an empty
\* datagram, a connection reset
ConcurrentSrvAnswers ==
  {[code |-> "", records |-> <<[name |-> <<115>>, port |-> 25566]>>]}
ConcurrentChunks == {<<3, 0, 1>>, <<57>>}
ConcurrentDatagrams == {createMockPongPacket(Join(DistinctFields)), <<>>}
ConcurrentError == Error("ECONNRESET")

(***************************************************************************)
(* The state machine                                                       *)
(***************************************************************************)
\* the last event: its kind, the error of an error event, the datagram of a
\* message event, whether a piece delivered from the wire followed earlier
\* pieces, and the outcome of an SRV lookup
NoAnswer == [code |-> "", records |-> <<>>]

Ev(name) ==
  [ev |-> name, err |-> NoError, datagram |-> <<>>, later |-> FALSE,
   answer |-> NoAnswer, req |-> 0]

\* a call of one of the library's pure functions: the function, its
\* arguments and what the call returned or threw
NoCall ==
  [fn |-> "none", value |-> Wide(0, 0), buffer |-> <<>>, offset |-> 0,
   chunks |-> <<>>, result |-> Returned(<<>>)]

Init ==
  /\ j = JavaIdle
  /\ b = BedrockIdle
  /\ wire = <<>>
  /\ last = Ev("none")
  /\ lib = NoCall
  /\ reqs = <<JavaIdle, JavaIdle, BedrockIdle>>

PingJava ==
  /\ j.phase = "idle" /\ b.phase = "idle"
  /\ \E call \in JavaCalls : j' = pingJavaCall(call.host, call.options)
  /\ last' = Ev("call")
  /\ UNCHANGED <<b, wire, lib, reqs>>

SrvLookupDone ==
  /\ j.phase = "lookup"
  /\ \E answer \in SrvAnswers :
       /\ j' = srvLookupDone(j, answer)
       /\ last' = [Ev("srv") EXCEPT !.answer = answer]
  /\ UNCHANGED <<b, wire, lib, reqs>>

JConnect ==
  /\ j.phase = "open"
  /\ Len(j.writes) < 2 * MaxConnects
  /\ j' = connectHandler(j)
  /\ last' = Ev("connect")
  /\ UNCHANGED <<b, wire, lib, reqs>>

JData ==
  /\ j.phase = "open"
  /\ wire = <<>>
  /\ \E data \in Chunks :
       /\ Len(j.incomingBuffer) + Len(data) <= MaxBuf
       /\ j' = dataHandler(j, data)
  /\ last' = Ev("data")
  /\ UNCHANGED <<b, wire, lib, reqs>>

JError ==
  /\ j.phase = "open"
  /\ \E err \in SocketErrors :
       /\ j' = errorHandler(j, err)
       /\ last' = [Ev("error") EXCEPT !.err = err]
  /\ UNCHANGED <<b, wire, lib, reqs>>

JClose ==
  /\ j.phase = "open"
  /\ j' = closeHandler(j)
  /\ last' = Ev("close")
  /\ UNCHANGED <<b, wire, lib, reqs>>

JTimeout ==
  /\ j.phase = "open"
  /\ j.timerArmed
  /\ j' = timeoutTask(j)
  /\ last' = Ev("timer")
  /\ UNCHANGED <<b, wire, lib, reqs>>

\* the server answers the status request with one well-formed packet
ServerRespond ==
  /\ j.phase = "open"
  /\ wire = <<>>
  /\ j.incomingBuffer = <<>>
  /\ \E json \in ServedJson : wire' = createMockJavaResponse(json)
  /\ last' = Ev("respond")
  /\ UNCHANGED <<j, b, lib, reqs>>

\* the server answers with a byte stream that does not follow the protocol
ServerMisbehave ==
  /\ j.phase = "open"
  /\ wire = <<>>
  /\ j.incomingBuffer = <<>>
  /\ \E stream \in MisbehavingStreams : wire' = stream
  /\ last' = Ev("respond")
  /\ UNCHANGED <<j, b, lib, reqs>>

\* the transport delivers the next bytes of the packet, in order
JDataWire ==
  /\ j.phase = "open"
  /\ wire # <<>>
  /\ \E k \in 1..Len(wire) :
       /\ j' = dataHandler(j, SubSeq(wire, 1, k))
       /\ wire' = SubSeq(wire, k + 1, Len(wire))
       /\ last' = [Ev("data") EXCEPT !.later = (j.incomingBuffer # <<>>)]
  /\ UNCHANGED <<b, lib, reqs>>

PingBedrock ==
  /\ j.phase = "idle" /\ b.phase = "idle"
  /\ \E host \in BedrockHosts : b' = pingBedrockCall(host, DEFAULT_BEDROCK_PORT)
  /\ last' = Ev("call")
  /\ UNCHANGED <<j, wire, lib, reqs>>

BSend ==
  /\ b.phase = "sending"
  /\ \E timestamp \in Timestamps, clientGuid \in ClientGuids, sendThrows \in BOOLEAN :
       b' = sendPing(b, timestamp, clientGuid, sendThrows)
  /\ last' = Ev("send")
  /\ UNCHANGED <<j, wire, lib, reqs>>

BMessage ==
  /\ b.phase = "open"
  /\ \E pongPacket \in Datagrams :
       /\ b' = messageHandler(b, pongPacket)
       /\ last' = [Ev("message") EXCEPT !.datagram = pongPacket]
  /\ UNCHANGED <<j, wire, lib, reqs>>

BError ==
  /\ b.phase = "open"
  /\ \E err \in SocketErrors :
       /\ b' = errorHandlerBedrock(b, err)
       /\ last' = [Ev("error") EXCEPT !.err = err]
  /\ UNCHANGED <<j, wire, lib, reqs>>

BTimeout ==
  /\ b.phase = "open"
  /\ b.timerArmed
  /\ b' = timeoutTaskBedrock(b)
  /\ last' = Ev("timer")
  /\ UNCHANGED <<j, wire, lib, reqs>>

\* calls of the pure functions of varint.js; a behaviour makes one call
CallEncodeVarInt ==
  /\ lib = NoCall
  /\ \E n \in EncodeInputs :
       lib' = [NoCall EXCEPT !.fn = "encodeVarInt", !.value = n,
                             !.result = encodeVarInt(ToInt32(n))]
  /\ UNCHANGED <<j, b, wire, last, reqs>>

CallDecodeVarInt ==
  /\ lib = NoCall
  /\ \E buffer \in VarIntBuffers :
       \E offset \in 0..(Len(buffer) + 1) :
         lib' = [NoCall EXCEPT !.fn = "decodeVarInt", !.buffer = buffer,
                               !.offset = offset,
                               !.result = decodeVarInt(buffer, offset)]
  /\ UNCHANGED <<j, b, wire, last, reqs>>

CallConcatPackets ==
  /\ lib = NoCall
  /\ \E chunks \in ChunkLists :
       lib' = [NoCall EXCEPT !.fn = "concatPackets", !.chunks = chunks,
                             !.result = concatPackets(chunks)]
  /\ UNCHANGED <<j, b, wire, last, reqs>>

\* events of requests that run concurrently: each event belongs to one
\* request and runs that request's handler on that request's closure.  A
\* socket that was destroyed (closed) delivers no further connect, data,
\* error or message event; its close event and a timer may still come.
CPingJava ==
  /\ \E i \in JavaSlots :
       /\ reqs[i].phase = "idle"
       /\ reqs' = [reqs EXCEPT ![i] = pingJavaCall(HostOf(i), NoOptions)]
       /\ last' = [Ev("call") EXCEPT !.req = i]
  /\ UNCHANGED <<j, b, wire, lib>>

CSrvLookupDone ==
  /\ \E i \in JavaSlots, answer \in ConcurrentSrvAnswers :
       /\ reqs[i].phase = "lookup"
       /\ reqs' = [reqs EXCEPT ![i] = srvLookupDone(reqs[i], answer)]
       /\ last' = [Ev("srv") EXCEPT !.req = i]
  /\ UNCHANGED <<j, b, wire, lib>>

CConnect ==
  /\ \E i \in JavaSlots :
       /\ reqs[i].phase = "open"
       /\ reqs[i].destroyCalls = 0
       /\ Len(reqs[i].writes) < 2 * MaxConnects
       /\ reqs' = [reqs EXCEPT ![i] = connectHandler(reqs[i])]
       /\ last' = [Ev("connect") EXCEPT !.req = i]
  /\ UNCHANGED <<j, b, wire, lib>>

CData ==
  /\ \E i \in JavaSlots, data \in ConcurrentChunks :
       /\ reqs[i].phase = "open"
       /\ reqs[i].destroyCalls = 0
       /\ Len(reqs[i].incomingBuffer) + Len(data) <= MaxBuf
       /\ reqs' = [reqs EXCEPT ![i] = dataHandler(reqs[i], data)]
       /\ last' = [Ev("data") EXCEPT !.req = i]
  /\ UNCHANGED <<j, b, wire, lib>>

CError ==
  /\ \E i \in JavaSlots :
       /\ reqs[i].phase = "open"
       /\ reqs[i].destroyCalls = 0
       /\ reqs' = [reqs EXCEPT ![i] = errorHandler(reqs[i], ConcurrentError)]
       /\ last' = [Ev("error") EXCEPT !.req = i]
  /\ UNCHANGED <<j, b, wire, lib>>

CClose ==
  /\ \E i \in JavaSlots :
       /\ reqs[i].phase = "open"
       /\ reqs' = [reqs EXCEPT ![i] = closeHandler(reqs[i])]
       /\ last' = [Ev("close") EXCEPT !.req = i]
  /\ UNCHANGED <<j, b, wire, lib>>

\* a timer shared by all requests: when it fires, every open pingJava
\* request is timed out
CTimeoutShared ==
  /\ \E i \in JavaSlots :
       /\ reqs[i].phase = "open"
       /\ reqs[i].timerArmed
       /\ reqs' = [k \in 1..Len(reqs) |->
                    IF k \in JavaSlots /\ reqs[k].phase = "open"
                    THEN timeoutTask(reqs[k]) ELSE reqs[k]]
       /\ last' = [Ev("timer") EXCEPT !.req = i]
  /\ UNCHANGED <<j, b, wire, lib>>

CTimeout ==
  /\ \E i \in JavaSlots :
       /\ reqs[i].phase = "open"
       /\ reqs[i].timerArmed
       /\ reqs' = [reqs EXCEPT ![i] = timeoutTask(reqs[i])]
       /\ last' = [Ev("timer") EXCEPT !.req = i]
  /\ UNCHANGED <<j, b, wire, lib>>

CPingBedrock ==
  /\ \E i \in BedrockSlots :
       /\ reqs[i].phase = "idle"
       /\ reqs' = [reqs EXCEPT ![i] = pingBedrockCall(HostOf(i), DEFAULT_BEDROCK_PORT)]
       /\ last' = [Ev("call") EXCEPT !.req = i]
  /\ UNCHANGED <<j, b, wire, lib>>

CSend ==
  /\ \E i \in BedrockSlots, timestamp \in Timestamps, sendThrows \in BOOLEAN :
       /\ reqs[i].phase = "sending"
       /\ reqs' = [reqs EXCEPT ![i] = sendPing(reqs[i], timestamp, Zeros(8), sendThrows)]
       /\ last' = [Ev("send") EXCEPT !.req = i]
  /\ UNCHANGED <<j, b, wire, lib>>

CMessage ==
  /\ \E i \in BedrockSlots, pongPacket \in ConcurrentDatagrams :
       /\ reqs[i].phase = "open"
       /\ reqs[i].closeCalls = 0
       /\ reqs' = [reqs EXCEPT ![i] = messageHandler(reqs[i], pongPacket)]
       /\ last' = [Ev("message") EXCEPT !.req = i]
  /\ UNCHANGED <<j, b, wire, lib>>

CBError ==
  /\ \E i \in BedrockSlots :
       /\ reqs[i].phase = "open"
       /\ reqs[i].closeCalls = 0
       /\ reqs' = [reqs EXCEPT ![i] = errorHandlerBedrock(reqs[i], ConcurrentError)]
       /\ last' = [Ev("error") EXCEPT !.req = i]
  /\ UNCHANGED <<j, b, wire, lib>>

CBTimeout ==
  /\ \E i \in BedrockSlots :
       /\ reqs[i].phase = "open"
       /\ reqs[i].timerArmed
       /\ reqs' = [reqs EXCEPT ![i] = timeoutTaskBedrock(reqs[i])]
       /\ last' = [Ev("timer") EXCEPT !.req = i]
  /\ UNCHANGED <<j, b, wire, lib>>

ConcurrentNext ==
  \/ CPingJava \/ CSrvLookupDone \/ CConnect \/ CData \/ CError \/ CClose
  \/ CTimeout \/ CPingBedrock \/ CSend \/ CMessage \/ CBError \/ CBTimeout

VarIntNext ==
  CallEncodeVarInt \/ CallDecodeVarInt \/ CallConcatPackets

JavaNext ==
  PingJava \/ SrvLookupDone \/ JConnect \/ JData \/ JError \/ JClose \/ JTimeout

ChunkedNext ==
  PingJava \/ SrvLookupDone \/ JConnect \/ ServerRespond \/ JDataWire

ConnectNext ==
  PingJava \/ SrvLookupDone \/ JConnect \/ JError \/ JClose \/ JTimeout

MisbehaveNext ==
  PingJava \/ SrvLookupDone \/ JConnect \/ ServerMisbehave \/ JDataWire \/ JTimeout

BedrockNext ==
  PingBedrock \/ BSend \/ BMessage \/ BError \/ BTimeout

Next ==
  \/ PingJava \/ SrvLookupDone \/ JConnect \/ JData \/ JError \/ JClose \/ JTimeout
  \/ ServerRespond \/ ServerMisbehave \/ JDataWire
  \/ PingBedrock \/ BSend \/ BMessage \/ BError \/ BTimeout
  \/ CallEncodeVarInt \/ CallDecodeVarInt \/ CallConcatPackets
  \/ CPingJava \/ CSrvLookupDone \/ CConnect \/ CData \/ CError \/ CClose
  \/ CTimeout \/ CPingBedrock \/ CSend \/ CMessage \/ CBError \/ CBTimeout

Spec == Init /\ [][Next]_vars
SpecJava == Init /\ [][JavaNext]_vars
SpecChunked == Init /\ [][ChunkedNext]_vars
SpecMisbehave == Init /\ [][MisbehaveNext]_vars
SpecBedrock == Init /\ [][BedrockNext]_vars
SpecBoth == Init /\ [][JavaNext \/ BedrockNext]_vars
SpecConnect == Init /\ [][ConnectNext]_vars
SpecEntry == Init /\ [][ConnectNext \/ BedrockNext]_vars
SpecVarInt == Init /\ [][VarIntNext]_vars
SpecConcurrent == Init /\ [][ConcurrentNext]_vars
FairSpecJava == SpecJava /\ WF_vars(JTimeout)
FairSpecBedrock == SpecBedrock /\ WF_vars(BSend) /\ WF_vars(BTimeout)

TypeOK ==
  /\ j.phase \in {"idle", "lookup", "open", "failed"}
  /\ b.phase \in {"idle", "thrown", "sending", "open"}
  /\ j.promise.state \in {"pending", "resolved", "rejected"}
  /\ b.promise.state \in {"pending", "resolved", "rejected"}

(***************************************************************************)
(* Properties                                                              *)
(***************************************************************************)
Pending(s) == s.promise.state = "pending"
Settled(s) == s.promise.state # "pending"
RejectedWith(s, e) ==
  s.promise = [state |-> "rejected", value |-> Undefined, reason |-> e]

\* C1: the promise of a pingJava request is settled at most once: once it
\* is resolved or rejected, no connect, data, error, close or timer event
\* changes its state, its value or its reason.
C1_SettledAtMostOnce ==
  [][(j.phase = "open" /\ Settled(j)) => j'.promise = j.promise]_vars

\* a resolved request that received a socket error afterwards
C1_Witness ==
  /\ j.promise.state = "resolved"
  /\ last.ev = "error"

\* the request state as it was when the socket had just been created
JustOpened(s) ==
  [s EXCEPT !.isCleanupCompleted = FALSE, !.timerArmed = TRUE,
            !.clearTimeoutCalls = 0, !.destroyCalls = 0,
            !.promise = PendingPromise, !.incomingBuffer = <<>>]

\* C2: while bytes of the served packet are still outstanding the request
\* is pending and nothing was cleaned up; when the last piece has arrived
\* the request is resolved with the JSON value of the packet's body, which
\* is the outcome of delivering the whole packet in one data event.
C2_Reassembly ==
  (j.phase = "open" /\ j.incomingBuffer \o wire # <<>>) =>
    LET packet == j.incomingBuffer \o wire
        whole == dataHandler(JustOpened(j), packet)
    IN  /\ \E json \in ServedJson :
             /\ packet = createMockJavaResponse(json)
             /\ whole.promise.state = "resolved"
             /\ whole.promise.value = JSONparse(Utf8Decode(json)).value
        /\ wire # <<>> =>
             /\ Pending(j)
             /\ ~j.isCleanupCompleted
             /\ j.timerArmed
             /\ j.destroyCalls = 0
        /\ wire = <<>> =>
             /\ j.promise = whole.promise
             /\ j.destroyCalls = 1

\* a packet with a two-byte length prefix, resolved by a piece that
\* followed earlier pieces
C2_Witness ==
  /\ wire = <<>>
  /\ j.promise.state = "resolved"
  /\ Len(j.incomingBuffer) > 128
  /\ last.ev = "data"
  /\ last.later

\* C3: once the socket exists the request eventually settles when the timer
\* is allowed to fire, and a timer that fires on a pending request rejects
\* it with 'Socket timeout' and destroys the socket.
C3_TimeoutSettles ==
  /\ [](j.phase = "open" => <>Settled(j))
  /\ [][(j.phase = "open" /\ Pending(j) /\ last'.ev = "timer") =>
          (RejectedWith(j', SocketTimeout) /\ j'.destroyCalls = 1)]_vars

\* the timer fired after connect, with partial data buffered
C3_Witness ==
  /\ last.ev = "timer"
  /\ RejectedWith(j, SocketTimeout)
  /\ j.destroyCalls = 1
  /\ j.writes # <<>>
  /\ j.incomingBuffer # <<>>

\* C4: a close event on a pending request rejects it with the
\* premature-close error and cleans up; a close event on a settled request
\* changes nothing.
C4_CloseRejectsIffPending ==
  [][(j.phase = "open" /\ last'.ev = "close") =>
       IF Pending(j)
       THEN RejectedWith(j', PrematureClose) /\ j'.destroyCalls = 1
       ELSE j' = j]_vars

\* a premature close after connect, with partial data buffered
C4_Witness ==
  /\ last.ev = "close"
  /\ RejectedWith(j, PrematureClose)
  /\ j.writes # <<>>
  /\ j.incomingBuffer # <<>>

\* C5: socket.destroy is called at most once; an error event on a pending
\* request rejects it with that error, and an error event on an already
\* rejected request changes neither the rejection nor the destroy count.
C5_CleanupIdempotent ==
  /\ [](j.destroyCalls <= 1)
  /\ [][(j.phase = "open" /\ last'.ev = "error") =>
          IF Pending(j)
          THEN RejectedWith(j', last'.err) /\ j'.destroyCalls = 1
          ELSE j'.promise = j.promise /\ j'.destroyCalls = j.destroyCalls]_vars

\* rejected with a first socket error, then a different second one arrived
C5_Witness ==
  /\ last.ev = "error"
  /\ j.promise.state = "rejected"
  /\ j.promise.reason \in SocketErrors
  /\ j.promise.reason # last.err
  /\ j.destroyCalls = 1

\* C6: whenever a request that created its socket is settled, cleanup has
\* run: the socket was destroyed (closed) once, clearTimeout was called and
\* the timer is no longer armed, so it cannot fire.
C6_SettledImpliesCleanedUp ==
  /\ (j.phase = "open" /\ Settled(j)) =>
       /\ j.isCleanupCompleted
       /\ j.destroyCalls = 1
       /\ j.clearTimeoutCalls = 1
       /\ ~j.timerArmed
  /\ (b.phase \in {"sending", "open"} /\ Settled(b)) =>
       /\ b.isCleanupCompleted
       /\ b.closeCalls = 1
       /\ b.clearTimeoutCalls = 1
       /\ ~b.timerArmed

\* a pingJava request resolved by a parsed response
C6_Witness ==
  /\ j.promise.state = "resolved"
  /\ last.ev = "data"
  /\ j.destroyCalls = 1

\* C7: socket.close is called at most once; a settled pingBedrock request
\* is changed by no later event; a socket error on a pending request
\* rejects it with that error and closes the socket.
C7_BedrockSettledOnce ==
  /\ [](b.closeCalls <= 1)
  /\ [][Settled(b) => (b'.promise = b.promise /\ b'.closeCalls = b.closeCalls)]_vars
  /\ [][(Pending(b) /\ last'.ev = "error") =>
          (RejectedWith(b', last'.err) /\ b'.closeCalls = 1)]_vars

\* a socket error rejected the request, then an empty datagram arrived
C7_Witness ==
  /\ last.ev = "message"
  /\ last.datagram = <<>>
  /\ b.promise.state = "rejected"
  /\ b.promise.reason \in SocketErrors
  /\ b.closeCalls = 1

\* the frame conditions of an Unconnected Pong
PongWellFramed(d) ==
  /\ Len(d) >= 35
  /\ d[1] = 28
  /\ 35 + (d[34] * 256 + d[35]) <= Len(d)

PongDeclared(d) == d[34] * 256 + d[35]

\* the protocol error of a datagram that is not a well-framed pong
PongFrameError(d) ==
  IF Len(d) < 35 THEN PongTooSmall
  ELSE IF d[1] # 28 THEN PongBadId(d[1])
  ELSE PongBadLength

\* C8: a datagram received by a pending pingBedrock request resolves it
\* only if it is well framed; any other datagram rejects the request with
\* the protocol error of its defect and closes the socket; an accepted
\* pong yields the response of exactly the declared bytes from offset 35;
\* no read falls outside the datagram.
C8_PongFraming ==
  [][(Pending(b) /\ last'.ev = "message") =>
       LET d == last'.datagram
       IN  /\ b'.promise.state = "resolved" => PongWellFramed(d)
           /\ ~PongWellFramed(d) =>
                (RejectedWith(b', PongFrameError(d)) /\ b'.closeCalls = 1)
           /\ PongWellFramed(d) =>
                LET motd == parseMotd(Utf8Decode(SubSeq(d, 36, 35 + PongDeclared(d))))
                IN  IF motd.threw THEN RejectedWith(b', motd.err)
                    ELSE b'.promise.value = transformMotd(motd.value)
           /\ b'.promise.reason # OutOfRange]_vars

\* an accepted pong whose datagram is longer than the declared MOTD
C8_Witness ==
  /\ last.ev = "message"
  /\ b.promise.state = "resolved"
  /\ PongWellFramed(last.datagram)
  /\ 35 + PongDeclared(last.datagram) < Len(last.datagram)

\* C9: a pingBedrock request that passed the host check eventually settles
\* when the timer is allowed to fire; the timer is armed when the ping is
\* sent; a timer that fires on a pending request rejects it with 'Socket
\* timeout' and closes the socket.
C9_BedrockTimeoutSettles ==
  /\ [](b.phase \in {"sending", "open"} => <>Settled(b))
  /\ [][last'.ev = "send" => b.timerArmed]_vars
  /\ [][(Pending(b) /\ last'.ev = "timer") =>
          (RejectedWith(b', SocketTimeout) /\ b'.closeCalls = 1)]_vars

\* the timer fired on a request whose ping was sent and never answered
C9_Witness ==
  /\ last.ev = "timer"
  /\ RejectedWith(b, SocketTimeout)
  /\ b.closeCalls = 1
  /\ Len(b.sent) = 1

\* the buffer starts with a complete frame whose packet ID decodes to a
\* value other than 0
HasBadPacketId(buffer) ==
  LET len == decodeVarInt(buffer, 0)
  IN  /\ ~len.threw
      /\ Len(buffer) >= len.value.bytesRead + len.value.value
      /\ LET id == decodeVarInt(buffer, len.value.bytesRead)
         IN  ~id.threw /\ id.value.value # 0

BadPacketId(buffer) ==
  decodeVarInt(buffer, decodeVarInt(buffer, 0).value.bytesRead).value.value

\* C10: when the buffered bytes hold a complete frame with a packet ID
\* other than 0 the request is rejected and the socket destroyed, whatever
\* arrives later; the data event that completes such a frame on a pending
\* request rejects it with the packet-ID protocol error.
C10_BadPacketIdRejects ==
  /\ []((j.phase = "open" /\ HasBadPacketId(j.incomingBuffer)) =>
         (j.promise.state = "rejected" /\ j.destroyCalls = 1))
  /\ [][(j.phase = "open" /\ Pending(j) /\ HasBadPacketId(j'.incomingBuffer)) =>
          (RejectedWith(j', PacketIdError(BadPacketId(j'.incomingBuffer)))
           /\ j'.destroyCalls = 1)]_vars

\* rejected for the packet ID of the frame <<1, 1>>, and at least one more
\* data event arrived after the event that completed the frame
C10_Witness ==
  /\ HasBadPacketId(j.incomingBuffer)
  /\ j.promise.state = "rejected"
  /\ j.promise.reason.msg = "Unexpected packet ID"
  /\ last.ev = "data"
  /\ SubSeq(j.incomingBuffer, 1, 2) = <<1, 1>>
  /\ Len(j.incomingBuffer) > MaxChunk + 1

\* the fields of the frame at the start of a buffer, as varints
Malformed5(buffer, offset) ==
  /\ Len(buffer) >= offset + 5
  /\ \A i \in 1..5 : buffer[offset + i] >= 128

LengthDecodes(buffer) == ~decodeVarInt(buffer, 0).threw
IdOffset(buffer) == decodeVarInt(buffer, 0).value.bytesRead
DeclaredLength(buffer) == decodeVarInt(buffer, 0).value.value
FrameComplete(buffer) ==
  /\ LengthDecodes(buffer)
  /\ Len(buffer) >= IdOffset(buffer) + DeclaredLength(buffer)
IdIsZero(buffer) ==
  /\ LengthDecodes(buffer)
  /\ ~decodeVarInt(buffer, IdOffset(buffer)).threw
  /\ decodeVarInt(buffer, IdOffset(buffer)).value.value = 0
JsonLengthOffset(buffer) ==
  IdOffset(buffer) + decodeVarInt(buffer, IdOffset(buffer)).value.bytesRead
JsonLengthDecodes(buffer) ==
  /\ IdIsZero(buffer)
  /\ ~decodeVarInt(buffer, JsonLengthOffset(buffer)).threw
JsonOffset(buffer) ==
  JsonLengthOffset(buffer)
  + decodeVarInt(buffer, JsonLengthOffset(buffer)).value.bytesRead
JsonLength(buffer) == decodeVarInt(buffer, JsonLengthOffset(buffer)).value.value
JsonUnparsable(buffer) ==
  /\ JsonLengthDecodes(buffer)
  /\ JsonLength(buffer) >= 0
  /\ Len(buffer) >= JsonOffset(buffer) + JsonLength(buffer)
  /\ JSONparse(Utf8Decode(SubSeq(buffer, JsonOffset(buffer) + 1,
                                  JsonOffset(buffer) + JsonLength(buffer)))).threw

\* a malformed varint in the packet-ID or JSON-length field, or a fully
\* received body that is not JSON
MalformedInFrame(buffer) ==
  \/ LengthDecodes(buffer) /\ Malformed5(buffer, IdOffset(buffer))
  \/ IdIsZero(buffer) /\ Malformed5(buffer, JsonLengthOffset(buffer))
  \/ JsonUnparsable(buffer)

FrameError(buffer) ==
  IF JsonUnparsable(buffer) THEN Error("SyntaxError") ELSE DecodeMalformed

\* C11 as stated: a malformed varint in the overall-length, packet-ID or
\* JSON-length field, or a fully received JSON body that does not parse,
\* always belongs to a rejected request whose socket was destroyed; it is
\* never left pending to wait for more data.
C11_MalformedNeverWaits ==
  (j.phase = "open"
   /\ (Malformed5(j.incomingBuffer, 0) \/ MalformedInFrame(j.incomingBuffer))) =>
    (j.promise.state = "rejected" /\ j.destroyCalls = 1)

\* C11 (amended): a malformed overall length, or, once the bytes declared by
\* the overall length have all been received, a malformed packet-ID or
\* JSON-length varint or a body that does not parse, always belongs to a
\* rejected request whose socket was destroyed once; the data event that
\* brings a pending request there rejects it with that error, and no later
\* event changes the rejection or destroys the socket again.
C11_MalformedTerminates ==
  /\ []((j.phase = "open"
         /\ \/ Malformed5(j.incomingBuffer, 0)
            \/ FrameComplete(j.incomingBuffer) /\ MalformedInFrame(j.incomingBuffer)) =>
        (j.promise.state = "rejected" /\ j.destroyCalls = 1))
  /\ [][(j.phase = "open" /\ Pending(j) /\ last'.ev = "data") =>
          /\ Malformed5(j'.incomingBuffer, 0) =>
               (RejectedWith(j', DecodeMalformed) /\ j'.destroyCalls = 1)
          /\ (FrameComplete(j'.incomingBuffer) /\ MalformedInFrame(j'.incomingBuffer)) =>
               (RejectedWith(j', FrameError(j'.incomingBuffer)) /\ j'.destroyCalls = 1)]_vars
  /\ [][(j.phase = "open" /\ j.promise.state = "rejected") =>
          (j'.promise = j.promise /\ j'.destroyCalls = j.destroyCalls)]_vars

\* a malformed JSON-length varint in a complete frame rejected the request
\* on the data event that delivered the last of its bytes
C11_Witness ==
  /\ last.ev = "data"
  /\ last.later
  /\ wire = <<>>
  /\ j.incomingBuffer = <<6, 0>> \o Cont(5)
  /\ RejectedWith(j, DecodeMalformed)
  /\ j.destroyCalls = 1

\* a varint decode of processResponse runs off the end of the buffer
UnderflowAt(buffer, offset) ==
  /\ decodeVarInt(buffer, offset).threw
  /\ decodeVarInt(buffer, offset).err.code = ERR_VARINT_BUFFER_UNDERFLOW

Underflows(buffer) ==
  \/ UnderflowAt(buffer, 0)
  \/ FrameComplete(buffer) /\ UnderflowAt(buffer, IdOffset(buffer))
  \/ FrameComplete(buffer) /\ IdIsZero(buffer)
     /\ UnderflowAt(buffer, JsonLengthOffset(buffer))

\* C12: no pingJava request is rejected with the buffer-underflow error;
\* a data event after which a varint decode of processResponse underflows
\* (overall length, packet ID or JSON length) leaves a pending request
\* pending, runs no cleanup, and keeps the earlier bytes followed by the
\* new ones in the buffer.
C12_UnderflowNeverSurfaces ==
  /\ [](j.promise.reason.code # ERR_VARINT_BUFFER_UNDERFLOW)
  /\ [][(j.phase = "open" /\ Pending(j) /\ last'.ev = "data"
          /\ Underflows(j'.incomingBuffer)) =>
          /\ Pending(j')
          /\ ~j'.isCleanupCompleted
          /\ j'.timerArmed = j.timerArmed
          /\ j'.destroyCalls = 0
          /\ j'.clearTimeoutCalls = 0
          /\ Len(j'.incomingBuffer) > Len(j.incomingBuffer)
          /\ SubSeq(j'.incomingBuffer, 1, Len(j.incomingBuffer)) = j.incomingBuffer]_vars

\* a pending request whose buffer <<1, 0, 128>> ends inside the
\* JSON-length varint
C12_Witness ==
  /\ last.ev = "data"
  /\ Pending(j)
  /\ j.incomingBuffer = <<1, 0, 128>>
  /\ FrameComplete(j.incomingBuffer)
  /\ UnderflowAt(j.incomingBuffer, JsonLengthOffset(j.incomingBuffer))

\* C13: the timeout is armed when the request begins, before the SRV
\* lookup: while the lookup is awaited the timer is armed, so that it can
\* reject a request whose lookup never completes.
C13_TimerArmedDuringLookup ==
  j.phase = "lookup" => j.timerArmed

\* C14: the data event that parses a complete response leaves in the
\* per-request buffer only the bytes that followed the consumed packet: the
\* new buffer is the remainder processResponse computed for the old buffer
\* extended by the chunk.
C14_BufferBecomesRemainder ==
  [][(j.phase = "open" /\ Pending(j) /\ last'.ev = "data"
      /\ j'.promise.state = "resolved") =>
       \E data \in Chunks :
         /\ processResponse(j.incomingBuffer \o data).kind = "result"
         /\ j'.incomingBuffer = processResponse(j.incomingBuffer \o data).remainder]_vars

\* the fields of a written Handshake packet, read back from its bytes:
\* [length][packet ID][protocol version][host length][host][port][next state]
HandshakeFields(packet) ==
  LET length == decodeVarInt(packet, 0).value
      o1 == length.bytesRead
      id == decodeVarInt(packet, o1).value
      o2 == o1 + id.bytesRead
      version == decodeVarInt(packet, o2).value
      o3 == o2 + version.bytesRead
      hostLength == decodeVarInt(packet, o3).value
      o4 == o3 + hostLength.bytesRead
      o5 == o4 + hostLength.value
      nextState == decodeVarInt(packet, o5 + 2).value
  IN  [length |-> length.value, payload |-> Len(packet) - o1,
       id |-> id.value, version |-> version.value,
       host |-> Utf8Decode(SubSeq(packet, o4 + 1, o5)),
       port |-> packet[o5 + 1] * 256 + packet[o5 + 2],
       nextState |-> nextState.value,
       end |-> o5 + 2 + nextState.bytesRead]

\* options.port if the caller gave one, else 25565
CallerPort(s) == IF s.options.port = <<>> THEN 25565 ELSE s.options.port[1]

\* C15: the handshake written on connect carries the host string the caller
\* passed and the port the connection was opened to; a lookup that returns
\* SRV records opens the connection to the first record's name and port,
\* whatever host the caller passed, and the caller's host string stays the
\* one the handshake will carry.
C15_HandshakeNamesCallerHost ==
  /\ [][(j.phase = "open" /\ last'.ev = "connect") =>
          LET h == HandshakeFields(j'.writes[Len(j.writes) + 1])
          IN  /\ h.host = j.host
              /\ h.port = j.sockets[1].port
              /\ h.port = j.targetPort
              /\ h.version = j.protocolVersion
              /\ h.nextState = 1]_vars
  /\ [][(j.phase = "lookup" /\ last'.ev = "srv" /\ last'.answer.records # <<>>) =>
          /\ j'.sockets = <<[host |-> last'.answer.records[1].name,
                             port |-> last'.answer.records[1].port]>>
          /\ j'.targetPort = last'.answer.records[1].port
          /\ j'.host = j.host]_vars
  /\ [][(j.phase = "lookup" /\ last'.ev = "srv" /\ last'.answer.records = <<>>
          /\ j'.phase = "open") =>
          /\ j'.sockets = <<[host |-> j.host, port |-> CallerPort(j)]>>
          /\ j'.targetPort = CallerPort(j)
          /\ j'.host = j.host]_vars

\* connected to the SRV target "s":25566, the handshake names the caller's
\* host "h" and the port 25566
C15_Witness ==
  /\ last.ev = "connect"
  /\ j.host = <<104>>
  /\ j.sockets = <<[host |-> <<115>>, port |-> 25566]>>
  /\ Len(j.writes) = 2
  /\ HandshakeFields(j.writes[1]).host = <<104>>
  /\ HandshakeFields(j.writes[1]).port = 25566

\* C16: nothing is written before the connect event and no event other than
\* connect writes; a connect event performs exactly two writes, first the
\* length-framed Handshake packet (packet ID 0, next state 1), then the
\* length-framed Status Request packet with no payload.
C16_TwoWritesOnConnect ==
  /\ [](j.phase \in {"idle", "lookup", "failed"} => j.writes = <<>>)
  /\ [][last'.ev # "connect" => j'.writes = j.writes]_vars
  /\ [][(j.phase = "open" /\ last'.ev = "connect") =>
          /\ Len(j'.writes) = Len(j.writes) + 2
          /\ SubSeq(j'.writes, 1, Len(j.writes)) = j.writes
          /\ j'.writes[Len(j.writes) + 2] = <<1, 0>>
          /\ LET packet == j'.writes[Len(j.writes) + 1]
                  h == HandshakeFields(packet)
              IN  /\ h.length = h.payload
                  /\ h.end = Len(packet)
                  /\ h.id = 0
                  /\ h.host = j.host
                  /\ h.nextState = 1]_vars

\* the two packets were written on connect, and data arrived afterwards
C16_Witness ==
  /\ last.ev = "data"
  /\ j.incomingBuffer # <<>>
  /\ Len(j.writes) = 2
  /\ j.writes[2] = <<1, 0>>
  /\ HandshakeFields(j.writes[1]).id = 0

\* C17: when the lookup returns records the connection is opened to the
\* first record's name and port; when it returns none, or fails with
\* ENODATA or ENOTFOUND, the connection is opened to the caller's host and
\* the caller's port, 25565 if none was given; in all these cases the
\* request stays pending, the socket exists and nothing is rejected.
C17_ConnectionTarget ==
  [][(j.phase = "lookup" /\ last'.ev = "srv"
      /\ last'.answer.code \in {"", "ENODATA", "ENOTFOUND"}) =>
       /\ j'.phase = "open"
       /\ Pending(j')
       /\ Len(j'.sockets) = 1
       /\ j'.sockets[1] =
            IF last'.answer.code = "" /\ Len(last'.answer.records) > 0
            THEN [host |-> last'.answer.records[1].name,
                  port |-> last'.answer.records[1].port]
            ELSE [host |-> j.host, port |-> CallerPort(j)]]_vars

\* the lookup failed with ENOTFOUND and the connection was opened to the
\* caller's host "::1" and port 25577
C17_Witness ==
  /\ last.ev = "srv"
  /\ last.answer.code = "ENOTFOUND"
  /\ j.phase = "open"
  /\ Pending(j)
  /\ j.sockets = <<[host |-> IpHost, port |-> 25577]>>

\* C18: a lookup that fails with a code other than ENODATA and ENOTFOUND
\* rejects the request with that error, and such a request never has a
\* socket, a timer or a written packet.
C18_FatalDnsError ==
  /\ [][(j.phase = "lookup" /\ last'.ev = "srv"
          /\ last'.answer.code \notin {"", "ENODATA", "ENOTFOUND"}) =>
          /\ RejectedWith(j', Error(last'.answer.code))
          /\ j'.phase = "failed"]_vars
  /\ [](j.phase = "failed" =>
          /\ j.sockets = <<>>
          /\ ~j.timerArmed
          /\ j.writes = <<>>
          /\ j.destroyCalls = 0)
  /\ [][j.phase = "failed" => j' = j]_vars

\* the lookup failed with ESERVFAIL and the request was rejected with it
C18_Witness ==
  /\ last.ev = "srv"
  /\ last.answer.code = "ESERVFAIL"
  /\ RejectedWith(j, Error("ESERVFAIL"))
  /\ j.sockets = <<>>

\* C19: for a literal IP address as host no SRV lookup is made and the
\* connection is opened to the caller's host and port.
C19_NoLookupForIpHost ==
  j.host = IpHost =>
    /\ j.lookups = <<>>
    /\ j.phase # "lookup"
    /\ j.phase = "open" => j.sockets = <<[host |-> j.host, port |-> CallerPort(j)]>>

\* C20: a call with a missing or empty host makes no I/O: pingJava returns
\* a promise rejected with 'Host argument is required.' and starts no
\* lookup, creates no socket, arms no timer and writes nothing; pingBedrock
\* throws before it creates a socket, arms a timer or sends anything; and
\* nothing happens to either afterwards.
C20_HostRequired ==
  /\ []((j.phase # "idle" /\ (j.host \in {Null, <<>>} \/ Trim(j.host) = <<>>)) =>
          /\ j.phase = "failed"
          /\ RejectedWith(j, HostRequired)
          /\ j.lookups = <<>>
          /\ j.sockets = <<>>
          /\ ~j.timerArmed
          /\ j.writes = <<>>)
  /\ []((b.phase # "idle" /\ b.host \in {Null, <<>>}) =>
          /\ b.phase = "thrown"
          /\ ~b.socketCreated
          /\ ~b.timerArmed
          /\ b.sent = <<>>
          /\ b.closeCalls = 0)
  /\ [][(j.phase = "failed" \/ b.phase = "thrown") => (j' = j /\ b' = b)]_vars

\* pingJava(" ") was rejected before any I/O
C20_Witness ==
  /\ j.phase = "failed"
  /\ j.host = <<32>>
  /\ RejectedWith(j, HostRequired)
  /\ j.lookups = <<>>
  /\ last.ev = "call"

(***************************************************************************)
(* varint.js as a library: encodeVarInt, decodeVarInt, concatPackets        *)
(***************************************************************************)
\* the call was encodeVarInt of a number that 32 bits hold
EncodedInt32 == lib.fn = "encodeVarInt" /\ lib.value.q = 0

\* C21: for every signed 32-bit value v, decoding encodeVarInt(v) at offset
\* 0 gives back exactly v, sign included (-1 gives -1), and reads as many
\* bytes as the encoding has.
C21_RoundTrip ==
  EncodedInt32 =>
    /\ ~lib.result.threw
    /\ LET d == decodeVarInt(lib.result.value, 0)
       IN  /\ ~d.threw
           /\ d.value.value = lib.value.r
           /\ d.value.bytesRead = Len(lib.result.value)

\* -1 was encoded, in five bytes, and decodes to -1
C21_Witness ==
  /\ EncodedInt32
  /\ lib.value.r = -1
  /\ Len(lib.result.value) = 5
  /\ decodeVarInt(lib.result.value, 0).value.value = -1

\* the seven value bits of byte i of an encoding, 0 beyond its end
SevenBits(e, i) == IF i <= Len(e) THEN e[i] % 128 ELSE 0

\* C22: for every signed 32-bit value encodeVarInt returns, without an
\* error, the shortest little-endian base-128 encoding of the value's
\* unsigned two's-complement pattern: one to five bytes, the continuation
\* bit set on every byte but the last, no final zero byte after another
\* byte, the seven-bit groups of the first four bytes being the low 28 bits
\* of the pattern and the fifth its top four bits; 0 is the byte 00 and -1
\* is FF FF FF FF 0F.
C22_ShortestEncoding ==
  EncodedInt32 =>
    /\ ~lib.result.threw
    /\ LET e == lib.result.value
           v == lib.value.r
       IN  /\ Len(e) \in 1..5
           /\ \A i \in 1..(Len(e) - 1) : e[i] \in 128..255
           /\ e[Len(e)] \in 0..127
           /\ Len(e) > 1 => e[Len(e)] # 0
           /\ SevenBits(e, 1) + 128 * SevenBits(e, 2) + 16384 * SevenBits(e, 3)
                + 2097152 * SevenBits(e, 4) = v % 268435456
           /\ SevenBits(e, 5) = (v \div 268435456) % 16
           /\ v = 0 => e = <<0>>
           /\ v = -1 => e = <<255, 255, 255, 255, 15>>

\* the smallest 32-bit value was encoded: four bytes 80 and the top nibble 8
C22_Witness ==
  /\ EncodedInt32
  /\ lib.value.r = MinInt32
  /\ lib.result.value = <<128, 128, 128, 128, 8>>

\* the number is 2^35 or more: its base-128 form needs more than 5 bytes
NeedsMoreThanFiveBytes(n) == n.q > 8 \/ (n.q = 8 /\ n.r >= 0)

\* C23: encodeVarInt fails with the error code VARINT_ENCODE_TOO_LARGE for
\* every value whose encoding needs more than 5 bytes (2^35 for one), and
\* returns bytes for no such value.
C23_TooLargeThrows ==
  (lib.fn = "encodeVarInt" /\ NeedsMoreThanFiveBytes(lib.value)) =>
    /\ lib.result.threw
    /\ lib.result.err.code = ERR_VARINT_ENCODE_TOO_LARGE

\* the bytes a decodeVarInt call has from its offset on: how many there
\* are, whether byte k of them carries the continuation bit, and whether
\* one of the first five (or fewer, when the buffer ends) does not
Available == IF lib.offset >= Len(lib.buffer) THEN 0 ELSE Len(lib.buffer) - lib.offset
Continues(k) == lib.buffer[lib.offset + k] >= 128
Terminated ==
  \E k \in 1..(IF Available < 5 THEN Available ELSE 5) : ~Continues(k)

\* C24: for every buffer and offset (0 or more) decodeVarInt yields
\* exactly one of three results: a BufferUnderflow error exactly when the
\* buffer ends before a byte without the continuation bit is found and
\* fewer than 5 bytes are available from the offset; a Malformed error
\* exactly when the 5 bytes from the offset all carry the continuation bit
\* (a sixth byte is not needed); otherwise a value with bytesRead in 1..5.
C24_DecodeOutcomes ==
  lib.fn = "decodeVarInt" =>
    LET r == lib.result
        underflow == r.threw /\ r.err.code = ERR_VARINT_BUFFER_UNDERFLOW
        malformed == r.threw /\ r.err.code = ERR_VARINT_MALFORMED
    IN  /\ underflow <=> (~Terminated /\ Available < 5)
        /\ malformed <=> (Available >= 5 /\ \A k \in 1..5 : Continues(k))
        /\ r.threw => (underflow \/ malformed)
        /\ ~r.threw => r.value.bytesRead \in 1..5

\* exactly five bytes, all with the continuation bit, are malformed
C24_Witness ==
  /\ lib.fn = "decodeVarInt"
  /\ lib.buffer = <<128, 128, 128, 128, 128>>
  /\ lib.offset = 0
  /\ lib.result.threw
  /\ lib.result.err.code = ERR_VARINT_MALFORMED

\* bytes put before and after the bytes a varint occupies
Surroundings == {<<>>, <<255>>, <<1, 128>>, <<128, 255, 127>>}

\* C25: what decodeVarInt(buffer, offset) returns depends only on the bytes
\* buffer[offset .. offset + bytesRead - 1]: the same bytes decode to the
\* same value and bytesRead at any other offset, whatever bytes come before
\* or after them; and offset + bytesRead never passes the end of the
\* buffer.
C25_DecodeIsLocal ==
  (lib.fn = "decodeVarInt" /\ ~lib.result.threw) =>
    LET n == lib.result.value.bytesRead
        window == SubSeq(lib.buffer, lib.offset + 1, lib.offset + n)
    IN  /\ lib.offset + n <= Len(lib.buffer)
        /\ \A before \in Surroundings, after \in Surroundings :
             decodeVarInt(before \o window \o after, Len(before)) = lib.result

\* the test's call: FF 80 01 7F decoded at offset 1 gives 128 in two bytes
C25_Witness ==
  /\ lib.fn = "decodeVarInt"
  /\ lib.buffer = <<255, 128, 1, 127>>
  /\ lib.offset = 1
  /\ lib.result = Decoded(128, 2)

\* the number of payload bytes in the chunks before chunk i
RECURSIVE BytesBefore(_, _)
BytesBefore(chunks, i) ==
  IF i <= 1 THEN 0 ELSE BytesBefore(chunks, i - 1) + Len(chunks[i - 1])

\* C26: concatPackets returns the varint of the total payload length
\* followed by the chunks in the order given: decoding the prefix yields
\* the number of payload bytes, and the bytes after the prefix are the
\* bytes of the chunks, each chunk at the place the chunks before it leave.
C26_ConcatFraming ==
  lib.fn = "concatPackets" =>
    /\ ~lib.result.threw
    /\ LET r == lib.result.value
           chunks == lib.chunks
           total == BytesBefore(chunks, Len(chunks) + 1)
           d == decodeVarInt(r, 0)
       IN  /\ ~d.threw
           /\ d.value.value = total
           /\ Len(r) = d.value.bytesRead + total
           /\ encodeVarInt(total) = Returned(SubSeq(r, 1, d.value.bytesRead))
           /\ \A i \in 1..Len(chunks) : \A k \in 1..Len(chunks[i]) :
                r[d.value.bytesRead + BytesBefore(chunks, i) + k] = chunks[i][k]

\* 126 bytes and 2 bytes: the prefix of the 128 payload bytes is 80 01
C26_Witness ==
  /\ lib.fn = "concatPackets"
  /\ lib.chunks = <<Fill(126), <<128, 9>>>>
  /\ SubSeq(lib.result.value, 1, 2) = <<128, 1>>
  /\ Len(lib.result.value) = 130

(***************************************************************************)
(* The MOTD of a pong                                                      *)
(***************************************************************************)
\* the MOTD string a well-framed pong carries
PongMotd(d) == Utf8Decode(SubSeq(d, 36, 35 + PongDeclared(d)))

\* the fields of a MOTD, counted from 0 as the claims count them: field i
\* lies between the i-th semicolon and the next one (or the ends)
Semicolons(m) == {k \in 1..Len(m) : m[k] = 59}
FieldCount(m) == Cardinality(Semicolons(m)) + 1
NthSemicolon(m, n) ==
  IF n = 0 THEN 0
  ELSE IF n > Cardinality(Semicolons(m)) THEN Len(m) + 1
  ELSE CHOOSE k \in Semicolons(m) :
         Cardinality({p \in Semicolons(m) : p < k}) = n - 1
Field(m, i) == SubSeq(m, NthSemicolon(m, i) + 1, NthSemicolon(m, i + 1) - 1)

\* a pending request received a well-framed pong in this step
ReceivesPong == Pending(b) /\ last'.ev = "message" /\ PongWellFramed(last'.datagram)

\* C27: a well-framed pong whose MOTD splits on ';' into fewer than 5
\* fields is invalid: the request is rejected through the error path (with
\* the MOTD format error, the socket closed once) and is never resolved
\* with a partial response.
C27_FewFieldsReject ==
  [][(ReceivesPong /\ FieldCount(PongMotd(last'.datagram)) < 5) =>
       /\ RejectedWith(b', MotdFormatError(FieldCount(PongMotd(last'.datagram))))
       /\ b'.closeCalls = 1
       /\ b'.isCleanupCompleted]_vars

\* a request rejected by a pong with four fields
C27_Witness ==
  /\ last.ev = "message"
  /\ PongWellFramed(last.datagram)
  /\ FieldCount(PongMotd(last.datagram)) = 4
  /\ RejectedWith(b, MotdFormatError(4))

\* an optionally negative decimal literal
IsIntegerLiteral(f) ==
  IsDigits(f) \/ (f # <<>> /\ Head(f) = 45 /\ IsDigits(Tail(f)))

\* field i of the MOTD as the response holds it: the string when the MOTD
\* has the field, undefined when it does not
FieldOrUndefined(m, i) ==
  IF i < FieldCount(m) THEN Str(Field(m, i)) ELSE Undefined

\* C28: at least 5 fields are enough: a well-framed pong whose MOTD has n
\* fields, 5 <= n <= 13 (its GUID field, when there is one, an integer
\* literal), resolves the request, the fields present mapped by position
\* and the absent trailing fields undefined.
C28_FiveFieldsSuffice ==
  [][(/\ ReceivesPong
      /\ FieldCount(PongMotd(last'.datagram)) \in 5..13
      /\ (FieldCount(PongMotd(last'.datagram)) >= 7 =>
            IsIntegerLiteral(Field(PongMotd(last'.datagram), 6)))) =>
       /\ b'.promise.state = "resolved"
       /\ LET m == PongMotd(last'.datagram)
              r == b'.promise.value
          IN  /\ r.edition = Str(Field(m, 0))
              /\ r.name = Str(Field(m, 1))
              /\ r.version.minecraft = Str(Field(m, 3))
              /\ r.levelName = FieldOrUndefined(m, 7)
              /\ r.gamemode = FieldOrUndefined(m, 8)]_vars

\* a pending request was resolved by a well-framed pong in this step
ResolvedByPong == ReceivesPong /\ b'.promise.state = "resolved"

\* C29: the optional trailing fields of a resolved response: the
\* nintendo-limited flag is true for "0", false for "1" and undefined when
\* absent or anything else; the editor-mode flag of a present string of
\* digits is false when the number is 0 and true otherwise, and undefined
\* when absent or empty; the IPv4 and IPv6 ports are the numbers of their
\* present (non-empty) digit strings and undefined when absent; so a MOTD
\* of 9 fields resolves with all four undefined.
C29_OptionalFields ==
  [][ResolvedByPong =>
       LET m == PongMotd(last'.datagram)
           n == FieldCount(m)
           r == b'.promise.value
       IN  /\ r.isNintendoLimited =
                (IF n >= 10 /\ Field(m, 9) = <<48>> THEN Bool(TRUE)
                 ELSE IF n >= 10 /\ Field(m, 9) = <<49>> THEN Bool(FALSE)
                 ELSE Undefined)
           /\ (n < 13 \/ Field(m, 12) = <<>>) => r.isEditorModeEnabled = Undefined
           /\ (n >= 13 /\ IsDigits(Field(m, 12))) =>
                r.isEditorModeEnabled =
                  Bool(\E i \in 1..Len(Field(m, 12)) : Field(m, 12)[i] # 48)
           /\ n < 11 => r.port.v4 = Undefined
           /\ n < 12 => r.port.v6 = Undefined
           /\ (n >= 11 /\ IsDigits(Field(m, 10))) =>
                r.port.v4 = Num(DigitsValue(Field(m, 10)))
           /\ (n >= 12 /\ IsDigits(Field(m, 11))) =>
                r.port.v6 = Num(DigitsValue(Field(m, 11)))
           /\ n = 9 =>
                /\ r.isNintendoLimited = Undefined
                /\ r.port = [v4 |-> Undefined, v6 |-> Undefined]
                /\ r.isEditorModeEnabled = Undefined]_vars

\* a request resolved by a MOTD of 13 fields whose editor-mode field is
\* empty: the flag is undefined while both ports are numbers
C29_Witness ==
  /\ last.ev = "message"
  /\ b.promise.state = "resolved"
  /\ PongWellFramed(last.datagram)
  /\ FieldCount(PongMotd(last.datagram)) = 13
  /\ Field(PongMotd(last.datagram), 12) = <<>>
  /\ b.promise.value.isEditorModeEnabled = Undefined
  /\ b.promise.value.port = [v4 |-> Num(5), v6 |-> Num(6)]

\* the bigint g is exactly the integer the literal f writes: the same
\* sign (0 has none) and, after the leading zeros of f, the same digits
SameInteger(g, f) ==
  LET neg == Head(f) = 45
      digits == IF neg THEN Tail(f) ELSE f
      pad == Len(digits) - Len(g.big.digits)
  IN  /\ pad >= 0
      /\ \A i \in 1..Len(digits) :
           digits[i] = (IF i <= pad THEN 48 ELSE g.big.digits[i - pad])
      /\ Len(g.big.digits) > 1 => g.big.digits[1] # 48
      /\ g.big.neg = (neg /\ g.big.digits # <<48>>)

\* C30: a well-framed pong whose MOTD has all 13 fields f0..f12 (f6 an
\* integer literal) resolves the request with exactly edition = f0,
\* name = f1, version.protocol = Number(f2), version.minecraft = f3,
\* players.online = Number(f4), players.max = Number(f5), guid = the
\* exact integer f6 writes (negative or above 2^63 - 1 alike),
\* levelName = f7, gamemode = f8, port.v4 = Number(f10) and
\* port.v6 = Number(f11) (f10 and f11 not empty).
C30_FullMotd ==
  [][(/\ ReceivesPong
      /\ FieldCount(PongMotd(last'.datagram)) = 13
      /\ IsIntegerLiteral(Field(PongMotd(last'.datagram), 6))
      /\ Field(PongMotd(last'.datagram), 10) # <<>>
      /\ Field(PongMotd(last'.datagram), 11) # <<>>) =>
       /\ b'.promise.state = "resolved"
       /\ LET m == PongMotd(last'.datagram)
              r == b'.promise.value
          IN  /\ r.edition = Str(Field(m, 0))
              /\ r.name = Str(Field(m, 1))
              /\ r.version = [protocol |-> Number(Str(Field(m, 2))),
                              minecraft |-> Str(Field(m, 3))]
              /\ r.players = [online |-> Number(Str(Field(m, 4))),
                              max |-> Number(Str(Field(m, 5)))]
              /\ SameInteger(r.guid, Field(m, 6))
              /\ r.levelName = Str(Field(m, 7))
              /\ r.gamemode = Str(Field(m, 8))
              /\ r.port = [v4 |-> Number(Str(Field(m, 10))),
                           v6 |-> Number(Str(Field(m, 11)))]]_vars

\* the request resolved by "M;N;8;V;3;4;11546321190880321782;L;G;1;5;6;0"
C30_Witness ==
  /\ last.ev = "message"
  /\ b.promise.state = "resolved"
  /\ PongMotd(last.datagram) = Join(DistinctFields)
  /\ b.promise.value.name = Str(<<78>>)
  /\ b.promise.value.levelName = Str(<<76>>)
  /\ b.promise.value.guid = Big(FALSE, DistinctFields[7])

(***************************************************************************)
(* The ping of pingBedrock                                                 *)
(***************************************************************************)
\* the datagram is an Unconnected Ping: 33 bytes, the ID 0x01, a timestamp
\* in little-endian order, the magic constant, a client GUID
IsUnconnectedPing(packet) ==
  /\ Len(packet) = 33
  /\ packet[1] = 1
  /\ \E t \in Timestamps : packet[2] + 256 * packet[3] + 65536 * packet[4] = t
  /\ \A k \in 5..9 : packet[k] = 0
  /\ SubSeq(packet, 10, 25) =
       <<0, 255, 255, 0, 254, 254, 254, 254, 253, 253, 253, 253, 18, 52, 86, 120>>
  /\ SubSeq(packet, 26, 33) \in ClientGuids

C33_ResolvesOnlyAfterConnect ==
  j.promise.state = "resolved" => Len(j.writes) >= 2

\* C34: the incoming buffer of a pingJava request is the concatenation of
\* the data chunks received so far, in arrival order: a data event appends
\* its chunk to the end of the buffer, once, and no other event of the
\* open socket touches the buffer; the event is followed by one parse of
\* the buffer from its start, whose result alone decides a pending
\* request: it stays pending when the parse is incomplete, is resolved
\* with the parsed response, or rejected with the thrown error.
C34_AppendThenParse ==
  [][j.phase = "open" =>
       /\ last'.ev # "data" => j'.incomingBuffer = j.incomingBuffer
       /\ last'.ev = "data" =>
            /\ \E data \in Chunks : j'.incomingBuffer = j.incomingBuffer \o data
            /\ Pending(j) =>
                 LET result == processResponse(j'.incomingBuffer)
                 IN  /\ result = Incomplete => (Pending(j') /\ ~j'.isCleanupCompleted)
                     /\ result.kind = "result" =>
                          (j'.promise.state = "resolved"
                            /\ j'.promise.value = result.response)
                     /\ result.kind = "throw" => RejectedWith(j', result.err)
                     /\ (result = Incomplete \/ result.kind \in {"result", "throw"})]_vars

\* a pending request that buffered 80 80 01 out of two or more chunks
C34_Witness ==
  /\ last.ev = "data"
  /\ Pending(j)
  /\ j.incomingBuffer = <<128, 128, 1>>
  /\ processResponse(j.incomingBuffer) = Incomplete

(***************************************************************************)
(* The first datagram of pingBedrock                                       *)
(***************************************************************************)
\* C35: the first datagram a pending pingBedrock request receives decides
\* it: a datagram that does not parse (undersized, wrong leading byte, bad
\* MOTD length, bad MOTD record) rejects the request at once with the parse
\* error, a valid pong resolves it; and once the request is settled no
\* later datagram, error or timer event changes anything, so a valid pong
\* after a rejection does not resolve it.
C35_FirstDatagramDecides ==
  [][/\ (Pending(b) /\ last'.ev = "message") =>
          /\ Settled(b')
          /\ b'.isCleanupCompleted
          /\ parseUnconnectedPong(last'.datagram).threw =>
               RejectedWith(b', parseUnconnectedPong(last'.datagram).err)
          /\ ~parseUnconnectedPong(last'.datagram).threw =>
               b'.promise.state = "resolved"
     /\ Settled(b) => b' = b]_vars

\* a request rejected by a bad datagram that received a valid pong since
C35_Witness ==
  /\ last.ev = "message"
  /\ ~parseUnconnectedPong(last.datagram).threw
  /\ b.promise.state = "rejected"
  /\ b.promise.reason = PongTooSmall

(***************************************************************************)
(* The fast path of decodeVarInt                                           *)
(***************************************************************************)
\* the call was decodeVarInt at a byte without the continuation bit
DecodedSingleByte ==
  /\ lib.fn = "decodeVarInt"
  /\ lib.offset < Len(lib.buffer)
  /\ lib.buffer[lib.offset + 1] < 128

\* a general decoder: one loop that starts at the first byte and reads up
\* to five bytes, each giving seven bits from the low end
RECURSIVE UniformDecode(_, _, _, _)
UniformDecode(buffer, offset, n, val) ==
  IF n >= 5 THEN Thrown(DecodeMalformed)
  ELSE IF offset + n >= Len(buffer) THEN Thrown(DecodeUnderflowIncomplete)
  ELSE LET byte == buffer[offset + n + 1]
           v == IF n = 0 THEN byte % 128
                ELSE val + ShiftLeft(byte % 128, 7 * n)
       IN  IF byte < 128 THEN Decoded(v, n + 1)
           ELSE UniformDecode(buffer, offset, n + 1, v)

\* C36 as claimed: for a first byte without the continuation bit,
\* decodeVarInt returns what the loop after the fast path computes for the
\* same input, so that taking the fast path out changes no result.
C36_FastPathRemovable ==
  DecodedSingleByte => decodeVarIntNoFastPath(lib.buffer, lib.offset) = lib.result

\* C36: for a first byte without the continuation bit, decodeVarInt
\* returns value = that byte and bytesRead = 1, which is what a general
\* loop starting at the first byte computes for the input.  (The loop of
\* the code starts at the second byte: the fast path cannot be taken out.)
C36_FastPathIsGeneralResult ==
  DecodedSingleByte =>
    /\ lib.result = Decoded(lib.buffer[lib.offset + 1], 1)
    /\ lib.result = UniformDecode(lib.buffer, lib.offset, 0, 0)

\* 7F 01 decoded at offset 0: the fast path returns 127, the loop after
\* it would have read the second byte too
C36_Witness ==
  /\ DecodedSingleByte
  /\ lib.buffer = <<127, 1>>
  /\ lib.offset = 0
  /\ lib.result = Decoded(127, 1)
  /\ decodeVarIntNoFastPath(lib.buffer, lib.offset) = Decoded(255, 2)

(***************************************************************************)
(* decodeVarInt and longer buffers                                         *)
(***************************************************************************)
\* bytes that arrive after the bytes already buffered
Appended == {<<1>>, <<128>>, <<255, 127>>, <<128, 128, 128, 128, 128>>}

\* the result is a value or the malformed error (not a buffer underflow)
Final(r) == ~r.threw \/ r.err.code = ERR_VARINT_MALFORMED

\* C37: a value or a Malformed error that decodeVarInt returns for a
\* buffer and an offset is what it returns for every longer buffer that
\* starts with the same bytes; only a BufferUnderflow result changes when
\* bytes are appended.  So the three varints processResponse decodes one
\* after the other (overall length, packet ID, JSON length), once decoded
\* from a buffer, are decoded the same from every longer buffer.
C37_StableUnderAppend ==
  lib.fn = "decodeVarInt" =>
    \A extra \in Appended :
      LET longer == lib.buffer \o extra
          first == decodeVarInt(lib.buffer, 0)
          second == decodeVarInt(lib.buffer, first.value.bytesRead)
          third == decodeVarInt(lib.buffer, first.value.bytesRead
                                              + second.value.bytesRead)
      IN  /\ Final(lib.result) => decodeVarInt(longer, lib.offset) = lib.result
          /\ ~Final(lib.result) => lib.result.err.code = ERR_VARINT_BUFFER_UNDERFLOW
          /\ (lib.offset = 0 /\ ~first.threw /\ Final(second)) =>
               decodeVarInt(longer, first.value.bytesRead) = second
          /\ (lib.offset = 0 /\ ~first.threw /\ ~second.threw /\ Final(third)) =>
               decodeVarInt(longer, first.value.bytesRead + second.value.bytesRead)
                 = third

\* five bytes FF are malformed, and stay malformed with a byte 01 appended,
\* while the underflow of FF FF turns into a value
C37_Witness ==
  /\ lib.fn = "decodeVarInt"
  /\ lib.buffer = <<255, 255, 255, 255, 255>>
  /\ lib.offset = 0
  /\ lib.result = Thrown(DecodeMalformed)
  /\ decodeVarInt(lib.buffer \o <<1>>, 0) = lib.result
  /\ decodeVarInt(<<255, 255>>, 0).threw
  /\ ~decodeVarInt(<<255, 255, 1>>, 0).threw

(***************************************************************************)
(* The frame processResponse consumes                                      *)
(***************************************************************************)
\* the end of the packet that the overall length prefix announces
FrameEnd(buffer) == IdOffset(buffer) + DeclaredLength(buffer)

\* C38: whenever processResponse returns a response for the buffered bytes,
\* the bytes it consumed are the frame the overall length prefix announces:
\* consumed size = prefix size + declared packet length, the JSON body lies
\* inside that frame, and the remainder starts at the end of the declared
\* packet.
C38_ConsumesDeclaredFrame ==
  (j.phase = "open" /\ processResponse(j.incomingBuffer).kind = "result") =>
    LET buffer == j.incomingBuffer
        result == processResponse(buffer)
    IN  /\ Len(buffer) - Len(result.remainder) = FrameEnd(buffer)
        /\ JsonOffset(buffer) + JsonLength(buffer) <= FrameEnd(buffer)
        /\ result.remainder = subarray(buffer, FrameEnd(buffer), Len(buffer))

(***************************************************************************)
(* The sign of the lengths processResponse decodes                         *)
(***************************************************************************)
\* C39: every length processResponse obtains from decodeVarInt for the
\* received bytes, the overall packet length and the JSON length, is
\* non-negative, for any received byte sequence, five-byte varints with
\* bit 31 set included.
C39_LengthsNonNegative ==
  j.phase = "open" =>
    /\ LengthDecodes(j.incomingBuffer) => DeclaredLength(j.incomingBuffer) >= 0
    /\ (FrameComplete(j.incomingBuffer) /\ JsonLengthDecodes(j.incomingBuffer)) =>
         JsonLength(j.incomingBuffer) >= 0
====
